---- MODULE Spec2Model ----
(***************************************************************************)
(* Model of the ALIVE backend (Express API over in-memory maps):           *)
(*   - OTP service            (services/otp.js: sendOTP, verifyOTP, ...)   *)
(*   - JWT utilities          (utils/jwt.js)                               *)
(*   - auth middleware        (middleware/auth.js: authenticate, authorize)*)
(*   - auth controller        (controllers/authController.js)              *)
(*   - kirana controller      (controllers/kiranaController.js)            *)
(*   - product controller     (controllers/productController.js)           *)
(*   - error classes/handler  (utils/errors.js, middleware/errorHandler.js)*)
(* One HTTP request is one action: Node runs a handler to completion, the  *)
(* awaits in these handlers are on already settled promises.               *)
(* Strings that the code measures or pattern-matches (phone numbers, OTP   *)
(* codes, names) are sequences of characters/digits.                       *)
(***************************************************************************)
EXTENDS Integers, Sequences, FiniteSets, TLC

VARIABLES
  now,            \* Date.now(), in ms since the process first started
  ticks,          \* number of clock advances so far (bounded)
  nextCleanup,    \* time at which the setInterval(cleanupExpiredOTPs) timer is due
  secret,         \* TRUE iff process.env.JWT_SECRET is configured
  otpStore,       \* Map phone -> {otp, expiresAt, attempts, createdAt}   (otp.js)
  userStore,      \* Map phone -> {id, phone, name, role, isVerified}     (authController.js)
  issued,         \* phone -> the token its client holds (the last one it was sent)
  otpVerified,    \* history: phones for which a verifyOTP call has succeeded
  storeMap,       \* Map id -> store record                               (kiranaController.js)
  storeIdCounter, \* let storeIdCounter                                   (kiranaController.js)
  call,           \* arguments of a middleware call under test
  result,         \* what that call did
  productMap,     \* Map id -> product record                             (productController.js)
  productIdCounter, \* let productIdCounter                               (productController.js)
  inflight,       \* handlers suspended at an await, in the order their continuations run
  restarts        \* number of times the process was restarted (bounded)

productVars == <<productMap, productIdCounter>>

processVars == <<inflight, restarts>>

vars == <<now, ticks, nextCleanup, secret, otpStore, userStore, issued, otpVerified,
          storeMap, storeIdCounter, call, result, productVars, processVars>>

(***************************************************************************)
(* Bounds of the model                                                     *)
(***************************************************************************)
MaxTicks == 1

(***************************************************************************)
(* Program constants                                                       *)
(***************************************************************************)
OTP_LENGTH == 6
OTP_EXPIRY_MINUTES == 5
MAX_ATTEMPTS == 3
TOKEN_EXPIRY_SECONDS == 86400
CLEANUP_INTERVAL_MS == 600000

NodeEnvs == {"development", "production"}

(***************************************************************************)
(* Maps (JavaScript Map): functions whose DOMAIN is the set of keys        *)
(***************************************************************************)
EmptyMap == <<>>

MapHas(m, k) == k \in DOMAIN m

MapSet(m, k, v) == [x \in (DOMAIN m) \cup {k} |-> IF x = k THEN v ELSE m[x]]

MapDelete(m, k) == [x \in (DOMAIN m) \ {k} |-> m[x]]

MapValues(m) == {m[k] : k \in DOMAIN m}

(***************************************************************************)
(* utils/errors.js: errors are records; hasStatus says whether the object  *)
(* carries a statusCode property, arg is the number interpolated into the  *)
(* message (0 when the message has none).                                  *)
(***************************************************************************)
\* An Error object: its class (constructor), its name property (no class of errors.js
\* sets it, so it is Error.prototype.name), message, and the own properties the
\* handlers read. code is a Prisma error code, status/hasBody/isSyntaxError are what
\* body-parser sets on a JSON parse error.
BaseError ==
  [class |-> "Error", name |-> "Error", hasStatus |-> FALSE, statusCode |-> 0,
   message |-> "", arg |-> 0, code |-> "", isSyntaxError |-> FALSE, status |-> 0, hasBody |-> FALSE]

\* "no error": the handler returned normally
NoError == [BaseError EXCEPT !.class = ""]

\* new Error(message)
PlainError(message) == [BaseError EXCEPT !.message = message]

AppError(message, statusCode) ==
  [BaseError EXCEPT !.class = "AppError", !.message = message, !.hasStatus = TRUE,
                    !.statusCode = statusCode]

ValidationError(message) == [AppError(message, 400) EXCEPT !.class = "ValidationError"]

AuthError(message) == [AppError(message, 401) EXCEPT !.class = "AuthError"]

ForbiddenError(message) == [AppError(message, 403) EXCEPT !.class = "ForbiddenError"]

NotFoundError(message) == [AppError(message, 404) EXCEPT !.class = "NotFoundError"]

ConflictError(message) == [AppError(message, 409) EXCEPT !.class = "ConflictError"]

InternalError(message) == [AppError(message, 500) EXCEPT !.class = "InternalError"]

ServiceUnavailableError(message) ==
  [AppError(message, 503) EXCEPT !.class = "ServiceUnavailableError"]

(***************************************************************************)
(* Strings as sequences                                                    *)
(***************************************************************************)
Digits == 0 .. 9

\* String.prototype.trim on a sequence of characters
RECURSIVE TrimLeft(_)
TrimLeft(s) == IF s # <<>> /\ Head(s) = " " THEN TrimLeft(Tail(s)) ELSE s

RECURSIVE TrimRight(_)
TrimRight(s) ==
  IF s # <<>> /\ s[Len(s)] = " " THEN TrimRight(SubSeq(s, 1, Len(s) - 1)) ELSE s

Trim(s) == TrimRight(TrimLeft(s))

\* authController validatePhone: /^[6-9]\d{9}$/ ; the result is the error thrown
validatePhone(phone) ==
  IF phone = <<>> THEN ValidationError("Phone number is required")
  ELSE IF ~(Len(phone) = 10 /\ phone[1] \in 6 .. 9 /\ \A i \in 1 .. Len(phone) : phone[i] \in Digits)
       THEN ValidationError("Invalid phone number. Must be 10 digits starting with 6-9")
       ELSE NoError

(***************************************************************************)
(* services/otp.js                                                         *)
(***************************************************************************)
\* sendOTP(phone) with the code drawn by generateOTP() and Date.now() = t
sendOTP(store, phone, code, t) ==
  IF phone = <<>> \/ Len(phone) < 10
  THEN [err |-> ValidationError("Invalid phone number"), store |-> store]
  ELSE [err |-> NoError,
        store |-> MapSet(store, phone,
                         [otp |-> code,
                          expiresAt |-> t + (OTP_EXPIRY_MINUTES * 60 * 1000),
                          attempts |-> 0,
                          createdAt |-> t])]

\* verifyOTP that leaves an accepted OTP in the store
verifyOTP_keepsAccepted(store, phone, otp, t) ==
  IF ~MapHas(store, phone)
  THEN [err |-> ValidationError("No OTP found for this phone number. Please request a new OTP."),
        store |-> store]
  ELSE IF t > store[phone].expiresAt
  THEN [err |-> ValidationError("OTP has expired. Please request a new OTP."),
        store |-> MapDelete(store, phone)]
  ELSE IF store[phone].attempts >= MAX_ATTEMPTS
  THEN [err |-> ValidationError("Maximum verification attempts exceeded. Please request a new OTP."),
        store |-> MapDelete(store, phone)]
  ELSE LET counted == [store EXCEPT ![phone].attempts = @ + 1] IN
       IF counted[phone].otp # otp
       THEN [err |-> [ValidationError("Invalid OTP. attempts remaining.")
                        EXCEPT !.arg = MAX_ATTEMPTS - counted[phone].attempts],
             store |-> counted]
       ELSE [err |-> NoError, store |-> counted]

\* verifyOTP whose attempt limit is off by one (attempts > MAX_ATTEMPTS)
verifyOTP_limitOffByOne(store, phone, otp, t) ==
  IF ~MapHas(store, phone)
  THEN [err |-> ValidationError("No OTP found for this phone number. Please request a new OTP."),
        store |-> store]
  ELSE IF t > store[phone].expiresAt
  THEN [err |-> ValidationError("OTP has expired. Please request a new OTP."),
        store |-> MapDelete(store, phone)]
  ELSE IF store[phone].attempts > MAX_ATTEMPTS
  THEN [err |-> ValidationError("Maximum verification attempts exceeded. Please request a new OTP."),
        store |-> MapDelete(store, phone)]
  ELSE LET counted == [store EXCEPT ![phone].attempts = @ + 1] IN
       IF counted[phone].otp # otp
       THEN [err |-> [ValidationError("Invalid OTP. attempts remaining.")
                        EXCEPT !.arg = MAX_ATTEMPTS - counted[phone].attempts],
             store |-> counted]
       ELSE [err |-> NoError, store |-> MapDelete(counted, phone)]

\* verifyOTP that treats the OTP as expired at expiresAt already (>= for >)
verifyOTP_expiredAtDeadline(store, phone, otp, t) ==
  IF ~MapHas(store, phone)
  THEN [err |-> ValidationError("No OTP found for this phone number. Please request a new OTP."),
        store |-> store]
  ELSE IF t >= store[phone].expiresAt
  THEN [err |-> ValidationError("OTP has expired. Please request a new OTP."),
        store |-> MapDelete(store, phone)]
  ELSE IF store[phone].attempts >= MAX_ATTEMPTS
  THEN [err |-> ValidationError("Maximum verification attempts exceeded. Please request a new OTP."),
        store |-> MapDelete(store, phone)]
  ELSE LET counted == [store EXCEPT ![phone].attempts = @ + 1] IN
       IF counted[phone].otp # otp
       THEN [err |-> [ValidationError("Invalid OTP. attempts remaining.")
                        EXCEPT !.arg = MAX_ATTEMPTS - counted[phone].attempts],
             store |-> counted]
       ELSE [err |-> NoError, store |-> MapDelete(counted, phone)]

\* verifyOTP(phone, otp) at Date.now() = t
verifyOTP(store, phone, otp, t) ==
  IF ~MapHas(store, phone)
  THEN [err |-> ValidationError("No OTP found for this phone number. Please request a new OTP."),
        store |-> store]
  ELSE IF t > store[phone].expiresAt
  THEN [err |-> ValidationError("OTP has expired. Please request a new OTP."),
        store |-> MapDelete(store, phone)]
  ELSE IF store[phone].attempts >= MAX_ATTEMPTS
  THEN [err |-> ValidationError("Maximum verification attempts exceeded. Please request a new OTP."),
        store |-> MapDelete(store, phone)]
  ELSE LET counted == [store EXCEPT ![phone].attempts = @ + 1] IN
       IF counted[phone].otp # otp
       THEN [err |-> [ValidationError("Invalid OTP. attempts remaining.")
                        EXCEPT !.arg = MAX_ATTEMPTS - counted[phone].attempts],
             store |-> counted]
       ELSE [err |-> NoError, store |-> MapDelete(counted, phone)]

\* cleanupExpiredOTPs() at Date.now() = t
cleanupExpiredOTPs(store, t) ==
  [p \in {q \in DOMAIN store : ~(t > store[q].expiresAt)} |-> store[p]]

(***************************************************************************)
(* utils/jwt.js. A token is what jwt.sign produced (sig = "good": signed   *)
(* with this server's secret) or a string that is not such a signature.    *)
(***************************************************************************)
NoToken == [sig |-> "none", userId |-> 0, phone |-> <<>>, role |-> "", iat |-> 0, exp |-> 0]

\* the empty string, as in the header "Bearer "
EmptyToken == [NoToken EXCEPT !.sig = "empty"]

\* a string that is not a token signed with the server's secret
ForgedToken == [NoToken EXCEPT !.sig = "bad"]

SecretError == PlainError("JWT_SECRET is not configured in environment variables")

\* generateToken(payload) with the default expiresIn = '24h', at Date.now() = t
generateToken(payload, t, hasSecret) ==
  IF ~hasSecret THEN [err |-> SecretError, token |-> NoToken]
  ELSE [err |-> NoError,
        token |-> [sig |-> "good",
                   userId |-> payload.userId,
                   phone |-> payload.phone,
                   role |-> IF payload.role = "" THEN "customer" ELSE payload.role,
                   iat |-> t \div 1000,
                   exp |-> (t \div 1000) + TOKEN_EXPIRY_SECONDS]]

\* verifyToken(token) at Date.now() = t
verifyToken(token, t, hasSecret) ==
  IF ~hasSecret THEN [err |-> SecretError, decoded |-> NoToken]
  ELSE IF token.sig # "good"
  THEN [err |-> AuthError("Invalid token. Please login again."), decoded |-> NoToken]
  ELSE IF (t \div 1000) >= token.exp
  THEN [err |-> AuthError("Token has expired. Please login again."), decoded |-> NoToken]
  ELSE [err |-> NoError, decoded |-> token]

\* extractTokenFromHeader that does not look at the scheme
extractTokenFromHeader_anyScheme(parts) ==
  IF parts = <<>> THEN NoToken
  ELSE IF Len(parts) # 2 THEN NoToken
  ELSE parts[2]

\* extractTokenFromHeader(authHeader); the header is given as authHeader.split(' '),
\* <<>> for a missing header
extractTokenFromHeader(parts) ==
  IF parts = <<>> THEN NoToken
  ELSE IF Len(parts) # 2 \/ parts[1] # "Bearer" THEN NoToken
  ELSE parts[2]

(***************************************************************************)
(* middleware/auth.js                                                      *)
(***************************************************************************)
\* req.user not set
NoUser == [set |-> FALSE, userId |-> 0, phone |-> <<>>, role |-> ""]

\* authenticate: err is what is passed to next (NoError: next()), user is req.user
authenticate(parts, t, hasSecret) ==
  LET token == extractTokenFromHeader(parts) IN
  IF token.sig \in {"none", "empty"}
  THEN [err |-> AuthError("No authentication token provided"), user |-> NoUser]
  ELSE LET v == verifyToken(token, t, hasSecret) IN
       IF v.err # NoError THEN [err |-> v.err, user |-> NoUser]
       ELSE [err |-> NoError,
             user |-> [set |-> TRUE, userId |-> v.decoded.userId,
                       phone |-> v.decoded.phone, role |-> v.decoded.role]]

\* authorize that only asks for an authenticated user
authorize_anyRole(roles, user) ==
  IF ~user.set THEN AuthError("Authentication required")
  ELSE NoError

\* authorize(...roles): the error passed to next (NoError: next())
authorize(roles, user) ==
  IF ~user.set THEN AuthError("Authentication required")
  ELSE IF user.role \notin roles THEN ForbiddenError("Access denied. Required roles")
  ELSE NoError

\* isCustomer, isKirana, isAdmin
isCustomer(user) == authorize({"customer"}, user)

isKirana(user) == authorize({"kirana"}, user)

isAdmin(user) == authorize({"admin"}, user)

(***************************************************************************)
(* middleware/errorHandler.js                                              *)
(***************************************************************************)
\* handlePrismaError(error)
handlePrismaError(err) ==
  IF err.code = "P2002" THEN [message |-> "field already exists", statusCode |-> 409]
  ELSE IF err.code = "P2025" THEN [message |-> "Record not found", statusCode |-> 404]
  ELSE IF err.code = "P2003" THEN [message |-> "Related record not found", statusCode |-> 400]
  ELSE [message |-> "Database operation failed", statusCode |-> 500]

\* errorHandler that answers 500 whatever the error carries
errorHandler_always500(err, env) ==
  [status |-> 500,
   success |-> FALSE,
   message |-> IF err.message # "" THEN err.message ELSE "Internal server error",
   statusCode |-> 500,
   arg |-> err.arg,
   stack |-> (env = "development")]

\* errorHandler(err, req, res, next): the response it sends.
\* error = {...err} copies statusCode when err carries one; the later branches overwrite it.
errorHandler(err, env) ==
  LET e0 == [message |-> err.message,
             statusCode |-> IF err.hasStatus THEN err.statusCode ELSE 0]
      e1 == IF err.name = "PrismaClientKnownRequestError" THEN handlePrismaError(err) ELSE e0
      e2 == IF err.name = "PrismaClientValidationError"
            THEN [message |-> "Invalid data provided", statusCode |-> 400] ELSE e1
      e3 == IF err.isSyntaxError /\ err.status = 400 /\ err.hasBody
            THEN [message |-> "Invalid JSON", statusCode |-> 400] ELSE e2
      statusCode == IF e3.statusCode # 0 THEN e3.statusCode ELSE 500
      message == IF e3.message # "" THEN e3.message ELSE "Internal server error"
  IN [status |-> statusCode,
      success |-> FALSE,
      message |-> message,
      statusCode |-> statusCode,
      arg |-> err.arg,
      stack |-> (env = "development")]

\* notFound(req, res, next): the error passed to next
notFound == AppError("Route not found", 404)

\* res.status(status).json({success: true, ...}) sent by a controller
Success(status, message) ==
  [status |-> status, success |-> TRUE, message |-> message, statusCode |-> 0,
   arg |-> 0, stack |-> FALSE]

\* no response (no request handled)
NoResponse == [Success(0, "") EXCEPT !.success = FALSE]

(***************************************************************************)
(* utils/asyncHandler.js                                                   *)
(***************************************************************************)
\* asyncHandler(fn)(req, res, next) where fn(req, res, next) settles with err
\* (NoError: resolves): the calls made to next, in order
asyncHandler(err) == IF err # NoError THEN <<err>> ELSE <<>>

\* A handler fn is given by how its call fn(req, res, next) ends: it "resolves" (returns,
\* or returns a promise that resolves), it "rejects" (returns a promise rejected with
\* err; an async function that throws does this), or it "throws" err before it returns,
\* which only a function that is not async can do.
\* What a wrapper does with it: the calls it makes to next, in order, and the error
\* thrown out of the wrapper to its caller (NoError: none)
WrapperResult(nextCalls, thrown) == [nextCalls |-> nextCalls, thrown |-> thrown]

\* asyncHandlerAlt without its try/catch
asyncHandlerAlt_noCatch(fn) ==
  IF fn.kind = "throws" THEN WrapperResult(<<>>, fn.err)
  ELSE IF fn.kind = "rejects" THEN WrapperResult(<<>>, NoError)
  ELSE WrapperResult(<<>>, NoError)

\* asyncHandler(fn)(req, res, next) for any fn: Promise.resolve(fn(req, res, next))
\* evaluates fn(req, res, next) first, outside any promise, and .catch(next) handles the
\* rejection of the promise it is given
asyncHandlerWrap(fn) ==
  IF fn.kind = "throws" THEN WrapperResult(<<>>, fn.err)
  ELSE IF fn.kind = "rejects" THEN WrapperResult(<<fn.err>>, NoError)
  ELSE WrapperResult(<<>>, NoError)

\* asyncHandlerAlt(fn)(req, res, next): try { await fn(req, res, next) } catch (error)
\* { next(error) } catches what fn throws and what the awaited promise is rejected with
asyncHandlerAlt(fn) ==
  IF fn.kind = "throws" THEN WrapperResult(<<fn.err>>, NoError)
  ELSE IF fn.kind = "rejects" THEN WrapperResult(<<fn.err>>, NoError)
  ELSE WrapperResult(<<>>, NoError)

(***************************************************************************)
(* controllers/authController.js                                           *)
(***************************************************************************)
\* generateUserId(): `user_${Date.now()}_${random}`, a fresh id
generateUserId(users) == Cardinality(DOMAIN users) + 1

\* the result of a controller: the error thrown (NoError: it sent `status`), the
\* stores afterwards, the token put in the response, and whether/how verifyOTP ran
Outcome(err, status, message, users, otps) ==
  [err |-> err, status |-> status, message |-> message, userStore |-> users,
   otpStore |-> otps, token |-> NoToken, otpCalled |-> FALSE, otpErr |-> NoError]

\* signup that does not look for an existing user
signup_noConflictCheck(users, otps, body, code, t) ==
  IF validatePhone(body.phone) # NoError
  THEN Outcome(validatePhone(body.phone), 0, "", users, otps)
  ELSE IF body.name = <<>> \/ Len(Trim(body.name)) < 2
  THEN Outcome(ValidationError("Name is required (minimum 2 characters)"), 0, "", users, otps)
  ELSE LET sent == sendOTP(otps, body.phone, code, t) IN
       IF sent.err # NoError THEN Outcome(sent.err, 0, "", users, sent.store)
       ELSE Outcome(NoError, 200, "OTP sent successfully",
                    MapSet(users, body.phone,
                           [id |-> generateUserId(users),
                            phone |-> body.phone,
                            name |-> Trim(body.name),
                            role |-> "customer",
                            isVerified |-> FALSE]),
                    sent.store)

\* signup(req, res), body = req.body, code = what generateOTP() draws
signup(users, otps, body, code, t) ==
  IF validatePhone(body.phone) # NoError
  THEN Outcome(validatePhone(body.phone), 0, "", users, otps)
  ELSE IF body.name = <<>> \/ Len(Trim(body.name)) < 2
  THEN Outcome(ValidationError("Name is required (minimum 2 characters)"), 0, "", users, otps)
  ELSE IF MapHas(users, body.phone)
  THEN Outcome(ConflictError("Phone number already registered. Please login instead."),
               0, "", users, otps)
  ELSE LET sent == sendOTP(otps, body.phone, code, t) IN
       IF sent.err # NoError THEN Outcome(sent.err, 0, "", users, sent.store)
       ELSE Outcome(NoError, 200, "OTP sent successfully",
                    MapSet(users, body.phone,
                           [id |-> generateUserId(users),
                            phone |-> body.phone,
                            name |-> Trim(body.name),
                            role |-> "customer",
                            isVerified |-> FALSE]),
                    sent.store)

\* login that does not look for the user
login_noUserCheck(users, otps, body, code, t) ==
  IF validatePhone(body.phone) # NoError
  THEN Outcome(validatePhone(body.phone), 0, "", users, otps)
  ELSE LET sent == sendOTP(otps, body.phone, code, t) IN
       IF sent.err # NoError THEN Outcome(sent.err, 0, "", users, sent.store)
       ELSE Outcome(NoError, 200, "OTP sent successfully", users, sent.store)

\* login(req, res)
login(users, otps, body, code, t) ==
  IF validatePhone(body.phone) # NoError
  THEN Outcome(validatePhone(body.phone), 0, "", users, otps)
  ELSE IF ~MapHas(users, body.phone)
  THEN Outcome(NotFoundError("Phone number not registered. Please signup first."),
               0, "", users, otps)
  ELSE LET sent == sendOTP(otps, body.phone, code, t) IN
       IF sent.err # NoError THEN Outcome(sent.err, 0, "", users, sent.store)
       ELSE Outcome(NoError, 200, "OTP sent successfully", users, sent.store)

\* verifyOTPAndLogin that goes on after a failed verifyOTP
verifyOTPAndLogin_ignoresOtpError(users, otps, body, t, hasSecret) ==
  IF validatePhone(body.phone) # NoError
  THEN Outcome(validatePhone(body.phone), 0, "", users, otps)
  ELSE IF body.otp = <<>> \/ Len(body.otp) # 6
  THEN Outcome(ValidationError("Invalid OTP format. Must be 6 digits."), 0, "", users, otps)
  ELSE LET v == verifyOTP(otps, body.phone, body.otp, t) IN
       IF ~MapHas(users, body.phone)
       THEN [Outcome(NotFoundError("User not found"), 0, "", users, v.store)
               EXCEPT !.otpCalled = TRUE, !.otpErr = v.err]
       ELSE LET marked == [users EXCEPT ![body.phone].isVerified = TRUE]
                g == generateToken([userId |-> marked[body.phone].id,
                                    phone |-> marked[body.phone].phone,
                                    role |-> marked[body.phone].role], t, hasSecret)
            IN IF g.err # NoError
               THEN [Outcome(g.err, 0, "", marked, v.store)
                       EXCEPT !.otpCalled = TRUE, !.otpErr = v.err]
               ELSE [Outcome(NoError, 200, "Login successful", marked, v.store)
                       EXCEPT !.otpCalled = TRUE, !.otpErr = v.err, !.token = g.token]

\* verifyOTPAndLogin(req, res)
verifyOTPAndLogin(users, otps, body, t, hasSecret) ==
  IF validatePhone(body.phone) # NoError
  THEN Outcome(validatePhone(body.phone), 0, "", users, otps)
  ELSE IF body.otp = <<>> \/ Len(body.otp) # 6
  THEN Outcome(ValidationError("Invalid OTP format. Must be 6 digits."), 0, "", users, otps)
  ELSE LET v == verifyOTP(otps, body.phone, body.otp, t) IN
       IF v.err # NoError
       THEN [Outcome(v.err, 0, "", users, v.store) EXCEPT !.otpCalled = TRUE, !.otpErr = v.err]
       ELSE IF ~MapHas(users, body.phone)
       THEN [Outcome(NotFoundError("User not found"), 0, "", users, v.store)
               EXCEPT !.otpCalled = TRUE]
       ELSE LET marked == [users EXCEPT ![body.phone].isVerified = TRUE]
                g == generateToken([userId |-> marked[body.phone].id,
                                    phone |-> marked[body.phone].phone,
                                    role |-> marked[body.phone].role], t, hasSecret)
            IN IF g.err # NoError
               THEN [Outcome(g.err, 0, "", marked, v.store) EXCEPT !.otpCalled = TRUE]
               ELSE [Outcome(NoError, 200, "Login successful", marked, v.store)
                       EXCEPT !.otpCalled = TRUE, !.token = g.token]

\* the result of a controller that touches no store
Reply(err, status, message) == [err |-> err, status |-> status, message |-> message]

\* getCurrentUser(req, res) with req.user = user
getCurrentUser(users, user) ==
  IF ~MapHas(users, user.phone) THEN Reply(NotFoundError("User not found"), 0, "")
  ELSE Reply(NoError, 200, "")

\* logout(req, res)
logout == Reply(NoError, 200, "Logout successful")

(***************************************************************************)
(* Express routing                                                         *)
(***************************************************************************)
\* what Express does after the route's last handler: the response of the request is
\* the controller's (ok) or the global error handler's, for the error given to next
Dispatch(nextCalls, ok, env) ==
  IF nextCalls = <<>> THEN ok ELSE errorHandler(nextCalls[1], env)

\* number of responses written: one by a controller that returned, one per errorHandler run
Sent(err, nextCalls) == (IF err = NoError THEN 1 ELSE 0) + Len(nextCalls)

\* router.post(path, asyncHandler(controller)) where the controller's result is r
RunHandler(r, env) ==
  [resp |-> Dispatch(asyncHandler(r.err), Success(r.status, r.message), env),
   sent |-> Sent(r.err, asyncHandler(r.err)),
   controller |-> TRUE,
   user |-> NoUser,
   nextErr |-> r.err]

\* router.get(path, authenticate, asyncHandler(controller)): a is authenticate's
\* result, r the controller's result with req.user = a.user
RunProtected(a, r, env) ==
  IF a.err # NoError
  THEN [resp |-> errorHandler(a.err, env), sent |-> 1, controller |-> FALSE,
        user |-> a.user, nextErr |-> a.err]
  ELSE [RunHandler(r, env) EXCEPT !.user = a.user]

(***************************************************************************)
(* Inputs of the model                                                     *)
(***************************************************************************)
PhoneA == <<9, 0, 0, 0, 0, 0, 0, 0, 0, 1>>
PhoneB == <<6, 0, 0, 0, 0, 0, 0, 0, 0, 2>>
Phones == {PhoneA, PhoneB}
\* missing, wrong first digit
BadPhones == {<<>>, <<5, 0, 0, 0, 0, 0, 0, 0, 0, 1>>}
PhoneInputs == Phones \cup BadPhones

\* "Al", " A " (one character after trimming), missing
NameInputs == {<<"A", "l">>, <<" ", "A", " ">>, <<>>}

\* what generateOTP() can draw: Math.floor(100000 + Math.random() * 900000).toString()
Codes == {[i \in 1 .. OTP_LENGTH |-> d] : d \in {1, 2}}
\* missing, five digits
OtpInputs == Codes \cup {<<>>, <<1, 2, 3, 4, 5>>}

SignupBodies == [phone : PhoneInputs, name : NameInputs]
LoginBodies == [phone : PhoneInputs]
VerifyBodies == [phone : PhoneInputs, otp : OtpInputs]

\* Authorization headers a client can send, split at ' ': a client holds the
\* tokens it was issued and can make up strings, but cannot sign
HeaderInputs ==
  {<<>>, <<"Bearer">>, <<"Bearer", EmptyToken>>, <<"Bearer", ForgedToken>>,
   <<"Basic", ForgedToken>>}
  \cup {<<"Bearer", tk>> : tk \in MapValues(issued)}
  \cup {<<"Basic", tk>> : tk \in MapValues(issued)}
  \cup {<<"Bearer", tk, tk>> : tk \in MapValues(issued)}

\* the OTP lifetime, 1 ms more, the token lifetime
TickDeltas ==
  {OTP_EXPIRY_MINUTES * 60 * 1000, OTP_EXPIRY_MINUTES * 60 * 1000 + 1,
   TOKEN_EXPIRY_SECONDS * 1000}

\* call: the middleware call under way (none while the routes are served);
\* result: what the call did (nextCalls: the arguments next was called with, NoError
\* for next(); handlerRan: the next handler of the chain ran; responses: those sent)
NoCall == [kind |-> "", err |-> NoError, env |-> "production", roles |-> {}, user |-> NoUser]
NoResult == [done |-> FALSE, nextCalls |-> <<>>, handlerRan |-> FALSE, responses |-> <<>>]

(***************************************************************************)
(* The auth routes, the clock and the OTP cleanup timer                    *)
(***************************************************************************)
InitAuth ==
  /\ now = 0
  /\ ticks = 0
  /\ nextCleanup = CLEANUP_INTERVAL_MS
  /\ secret \in BOOLEAN
  /\ otpStore = EmptyMap
  /\ userStore = EmptyMap
  /\ issued = EmptyMap
  /\ otpVerified = {}

\* the state a public auth route leaves behind, r the controller's result
AuthRoute(phone, r) ==
  /\ userStore' = r.userStore
  /\ otpStore' = r.otpStore
  /\ issued' = IF r.token # NoToken THEN MapSet(issued, phone, r.token) ELSE issued
  /\ otpVerified' = IF r.otpCalled /\ r.otpErr = NoError
                    THEN otpVerified \cup {phone} ELSE otpVerified
  /\ UNCHANGED <<productVars, processVars,
                 now, ticks, nextCleanup, secret, storeMap, storeIdCounter, call, result>>

\* POST /api/auth/signup
Signup ==
  \E body \in SignupBodies, code \in Codes :
    AuthRoute(body.phone, signup(userStore, otpStore, body, code, now))

\* POST /api/auth/login
Login ==
  \E body \in LoginBodies, code \in Codes :
    AuthRoute(body.phone, login(userStore, otpStore, body, code, now))

\* POST /api/auth/verify-otp
VerifyOtp ==
  \E body \in VerifyBodies :
    AuthRoute(body.phone, verifyOTPAndLogin(userStore, otpStore, body, now, secret))

\* router.get('/me', authenticate, asyncHandler(getCurrentUser)): the request's trace
MeRoute(header, env) ==
  LET a == authenticate(header, now, secret) IN
  RunProtected(a, getCurrentUser(userStore, a.user), env)

\* router.post('/logout', authenticate, asyncHandler(logout)): the request's trace
LogoutRoute(header, env) == RunProtected(authenticate(header, now, secret), logout, env)

\* GET /api/auth/me: answered, no state changes
GetMe ==
  /\ UNCHANGED vars
  /\ \E header \in HeaderInputs, env \in NodeEnvs : MeRoute(header, env).sent = 1

\* POST /api/auth/logout: answered, no state changes
Logout ==
  /\ UNCHANGED vars
  /\ \E header \in HeaderInputs, env \in NodeEnvs : LogoutRoute(header, env).sent = 1

\* time passes
Tick ==
  /\ ticks < MaxTicks
  /\ \E d \in TickDeltas : now' = now + d
  /\ ticks' = ticks + 1
  /\ UNCHANGED <<productVars, processVars,
                 nextCleanup, secret, otpStore, userStore, issued, otpVerified,
                 storeMap, storeIdCounter, call, result>>

\* setInterval(cleanupExpiredOTPs, 10 * 60 * 1000) fires
CleanupTimer ==
  /\ now >= nextCleanup
  /\ otpStore' = cleanupExpiredOTPs(otpStore, now)
  /\ nextCleanup' = now + CLEANUP_INTERVAL_MS
  /\ UNCHANGED <<productVars, processVars,
                 now, ticks, secret, userStore, issued, otpVerified,
                 storeMap, storeIdCounter, call, result>>

(***************************************************************************)
(* utils/validators.js, controllers/kiranaController.js                    *)
(***************************************************************************)
\* a store request body: valid says whether the fields other than ownerPhone pass
\* their validators; hasPhone/hasId say whether the body has ownerPhone / id
NoStoreBody ==
  [valid |-> TRUE, hasPhone |-> FALSE, ownerPhone |-> <<>>, hasId |-> FALSE, id |-> <<>>,
   hasLocation |-> FALSE, latitude |-> 0, longitude |-> 0, hasActive |-> FALSE,
   isActive |-> TRUE]

\* validateKiranaStore(data): the error thrown
validateKiranaStore(body) ==
  IF ~body.valid THEN ValidationError("invalid store data")
  ELSE IF ~body.hasPhone THEN ValidationError("Phone number is required")
  ELSE validatePhone(body.ownerPhone)

\* validateKiranaStoreUpdate(data): only the fields provided are validated
validateKiranaStoreUpdate(body) ==
  IF ~body.valid THEN ValidationError("invalid store data")
  ELSE IF body.hasPhone THEN validatePhone(body.ownerPhone)
  ELSE NoError

\* generateStoreId(): `kirana_${Date.now()}_${storeIdCounter++}`
generateStoreId(counter) == <<"kirana", counter>>

StoreOutcome(err, status, stores, counter) ==
  [err |-> err, status |-> status, message |-> "", storeMap |-> stores, counter |-> counter]

\* createStore(req, res), body = req.body
createStore(stores, counter, body) ==
  IF validateKiranaStore(body) # NoError
  THEN StoreOutcome(validateKiranaStore(body), 0, stores, counter)
  ELSE IF \E st \in MapValues(stores) : st.ownerPhone = body.ownerPhone
  THEN StoreOutcome(ConflictError("Store with this phone number already exists"),
                    0, stores, counter)
  ELSE StoreOutcome(NoError, 201,
                    MapSet(stores, generateStoreId(counter),
                           [id |-> generateStoreId(counter),
                            ownerPhone |-> body.ownerPhone,
                            latitude |-> body.latitude,
                            longitude |-> body.longitude,
                            isActive |-> TRUE]),
                    counter + 1)

\* updateStore(req, res), id = req.params.id, body = req.body;
\* updatedStore = {...store, ...updateData} takes every field the body has
updateStore(stores, counter, id, body) ==
  IF validateKiranaStoreUpdate(body) # NoError
  THEN StoreOutcome(validateKiranaStoreUpdate(body), 0, stores, counter)
  ELSE IF ~MapHas(stores, id)
  THEN StoreOutcome(NotFoundError("Store not found"), 0, stores, counter)
  ELSE IF /\ body.hasPhone
          /\ body.ownerPhone # stores[id].ownerPhone
          /\ \E st \in MapValues(stores) : st.ownerPhone = body.ownerPhone /\ st.id # id
  THEN StoreOutcome(ConflictError("Phone number already in use by another store"),
                    0, stores, counter)
  ELSE StoreOutcome(NoError, 200,
                    MapSet(stores, id,
                           [id |-> IF body.hasId THEN body.id ELSE stores[id].id,
                            ownerPhone |-> IF body.hasPhone THEN body.ownerPhone
                                           ELSE stores[id].ownerPhone,
                            latitude |-> IF body.hasLocation THEN body.latitude
                                         ELSE stores[id].latitude,
                            longitude |-> IF body.hasLocation THEN body.longitude
                                          ELSE stores[id].longitude,
                            isActive |-> IF body.hasActive THEN body.isActive
                                         ELSE stores[id].isActive]),
                    counter)

(***************************************************************************)
(* Query strings and the numbers read from them. A query is a record that   *)
(* has a field for each parameter the URL gives; a value that the code      *)
(* parses is a sequence of characters. Numbers are whole: the strings used  *)
(* hold no '.' and no exponent, for which parseFloat and parseInt read the  *)
(* same prefix (sign, digits) and ignore the rest.                          *)
(***************************************************************************)
Has(q, field) == field \in DOMAIN q

DigitChars == <<"0", "1", "2", "3", "4", "5", "6", "7", "8", "9">>

IsDigit(c) == \E i \in 1 .. Len(DigitChars) : DigitChars[i] = c

DigitValue(c) == (CHOOSE i \in 1 .. Len(DigitChars) : DigitChars[i] = c) - 1

\* a JavaScript number: NaN or a whole number
NaN == [nan |-> TRUE, val |-> 0]

Num(n) == [nan |-> FALSE, val |-> n]

\* the longest prefix of s made of digits
RECURSIVE LeadingDigits(_)
LeadingDigits(s) ==
  IF s # <<>> /\ IsDigit(Head(s)) THEN <<Head(s)>> \o LeadingDigits(Tail(s)) ELSE <<>>

RECURSIVE DigitsValue(_)
DigitsValue(ds) ==
  IF ds = <<>> THEN 0
  ELSE 10 * DigitsValue(SubSeq(ds, 1, Len(ds) - 1)) + DigitValue(ds[Len(ds)])

\* the number a string starts with, after leading spaces: a sign and digits
LeadingNumber(s) ==
  LET t == TrimLeft(s)
      signed == t # <<>> /\ Head(t) \in {"-", "+"}
      ds == LeadingDigits(IF signed THEN Tail(t) ELSE t)
  IN IF ds = <<>> THEN NaN
     ELSE IF signed /\ Head(t) = "-" THEN Num(0 - DigitsValue(ds))
     ELSE Num(DigitsValue(ds))

\* parseFloat(string)
parseFloat(s) == LeadingNumber(s)

\* parseInt(string)
parseInt(s) == LeadingNumber(s)

\* a + b and a < b on JavaScript numbers
NumAdd(a, b) == IF a.nan \/ b.nan THEN NaN ELSE Num(a.val + b.val)

NumLess(a, b) == ~a.nan /\ ~b.nan /\ a.val < b.val

\* Array.prototype.slice(start, end)
Slice(seq, start, end) ==
  LET len == Len(seq)
      Rel(x) == IF x.nan THEN 0
                ELSE IF x.val < 0 THEN (IF len + x.val < 0 THEN 0 ELSE len + x.val)
                ELSE IF x.val > len THEN len ELSE x.val
      k == Rel(start)
      final == Rel(end)
  IN IF final <= k THEN <<>> ELSE SubSeq(seq, k + 1, final)

\* {...object, field: value}
WithField(object, field, value) ==
  [k \in DOMAIN object \cup {field} |-> IF k = field THEN value ELSE object[k]]

\* the keys of a Map in insertion order: an id ends in the counter it was generated
\* from, and set() on a key the Map has keeps the key's place
RECURSIVE KeysInOrder(_)
KeysInOrder(keys) ==
  IF keys = {} THEN <<>>
  ELSE LET first == CHOOSE k \in keys : \A other \in keys : k[2] <= other[2]
       IN <<first>> \o KeysInOrder(keys \ {first})

\* Array.from(map.values())
ValuesInOrder(m) == [i \in 1 .. Cardinality(DOMAIN m) |-> m[KeysInOrder(DOMAIN m)[i]]]

\* array.sort((a, b) => a.distance - b.distance): stable, by non-decreasing distance
RECURSIVE SortByDistance(_)
SortByDistance(seq) ==
  IF seq = <<>> THEN <<>>
  ELSE LET last == seq[Len(seq)]
           front == SortByDistance(SubSeq(seq, 1, Len(seq) - 1))
           before == SelectSeq(front, LAMBDA x : x.distance <= last.distance)
           after == SelectSeq(front, LAMBDA x : x.distance > last.distance)
       IN before \o <<last>> \o after

(***************************************************************************)
(* Geography. Latitudes and longitudes are whole degrees, distances are in  *)
(* metres. calculateDistance is the haversine great-circle distance with    *)
(* R = 6371 km; for two points on one meridian, and for two points on the   *)
(* equator, it is R * pi / 180 per degree between them. Two points on       *)
(* different parallels and different meridians are at least the arc between *)
(* their parallels apart; the model gives them that distance, and uses such *)
(* pairs only where the arc (19 degrees or more) is beyond every radius.    *)
(* Two points on one parallel other than the equator are not used.          *)
(***************************************************************************)
METRES_PER_DEGREE == 111195

Abs(x) == IF x < 0 THEN 0 - x ELSE x

calculateDistance(lat1, lon1, lat2, lon2) ==
  CASE lon1 = lon2 -> METRES_PER_DEGREE * Abs(lat2 - lat1)
    [] lon1 # lon2 /\ lat1 = 0 /\ lat2 = 0 -> METRES_PER_DEGREE * Abs(lon2 - lon1)
    [] lon1 # lon2 /\ lat1 # lat2 -> METRES_PER_DEGREE * Abs(lat2 - lat1)

\* the result of a read-only controller
QueryOutcome(err, items) ==
  [err |-> err, status |-> IF err = NoError THEN 200 ELSE 0, message |-> "",
   items |-> items, count |-> Len(items), total |-> 0, hasMore |-> FALSE]

\* the search radius in metres of the query's radius (km, default 5)
SearchRadius(q) == IF Has(q, "radius") THEN parseFloat(q.radius) ELSE Num(5)

\* getNearbyStores(req, res), q = req.query
getNearbyStores(stores, q) ==
  IF ~Has(q, "lat") \/ ~Has(q, "lng")
  THEN QueryOutcome(ValidationError("Latitude and longitude are required"), <<>>)
  ELSE IF q.lat = <<>> \/ q.lng = <<>>
  THEN QueryOutcome(ValidationError("Latitude and longitude are required"), <<>>)
  ELSE LET latitude == parseFloat(q.lat)
           longitude == parseFloat(q.lng)
           searchRadius == SearchRadius(q)
       IN IF latitude.nan \/ longitude.nan \/ searchRadius.nan
          THEN QueryOutcome(ValidationError("Invalid coordinates or radius"), <<>>)
          ELSE LET active == SelectSeq(ValuesInOrder(stores), LAMBDA st : st.isActive)
                   measured == [i \in 1 .. Len(active) |->
                                  WithField(active[i], "distance",
                                            calculateDistance(latitude.val, longitude.val,
                                                              active[i].latitude,
                                                              active[i].longitude))]
                   near == SelectSeq(measured,
                                     LAMBDA st : st.distance <= searchRadius.val * 1000)
               IN QueryOutcome(NoError, SortByDistance(near))

\* the page of the filtered list that limit and offset (defaults 20 and 0) select
Paginate(items, q) ==
  LET limit == IF Has(q, "limit") THEN parseInt(q.limit) ELSE Num(20)
      offset == IF Has(q, "offset") THEN parseInt(q.offset) ELSE Num(0)
      page == Slice(items, offset, NumAdd(offset, limit))
  IN [QueryOutcome(NoError, page) EXCEPT !.total = Len(items),
                                         !.hasMore = NumLess(NumAdd(offset, limit),
                                                             Num(Len(items)))]

\* listStores(req, res), q = req.query; of the filters, isActive is modelled
listStores(stores, q) ==
  LET all == ValuesInOrder(stores)
      filtered == IF Has(q, "isActive")
                  THEN SelectSeq(all, LAMBDA st : st.isActive = (q.isActive = "true"))
                  ELSE all
  IN Paginate(filtered, q)

(***************************************************************************)
(* utils/validators.js (products), controllers/productController.js        *)
(*                                                                         *)
(* A request body and a product are JavaScript objects: functions from the *)
(* keys they have. Texts (name, brand, category, imageUrl) and the numbers *)
(* of a body are character sequences, a product's numbers are integers.    *)
(* Of a product's fields the model keeps the ones below; discountPercent,  *)
(* description and isAvailable are left out, no body of the model gives    *)
(* them.                                                                   *)
(***************************************************************************)
UpperCase ==
  <<"A", "B", "C", "D", "E", "F", "G", "H", "I", "J", "K", "L", "M",
    "N", "O", "P", "Q", "R", "S", "T", "U", "V", "W", "X", "Y", "Z">>

LowerCase ==
  <<"a", "b", "c", "d", "e", "f", "g", "h", "i", "j", "k", "l", "m",
    "n", "o", "p", "q", "r", "s", "t", "u", "v", "w", "x", "y", "z">>

\* String.prototype.toLowerCase()
toLowerCase(s) ==
  [i \in 1 .. Len(s) |->
     IF \E j \in 1 .. Len(UpperCase) : UpperCase[j] = s[i]
     THEN LowerCase[CHOOSE j \in 1 .. Len(UpperCase) : UpperCase[j] = s[i]]
     ELSE s[i]]

\* String.prototype.includes(part)
Includes(s, part) ==
  \E i \in 0 .. Len(s) : i + Len(part) <= Len(s) /\ SubSeq(s, i + 1, i + Len(part)) = part

\* validateRequired(value, fieldName, minLength) does not throw
validateRequired(data, field, minLength) ==
  Has(data, field) /\ data[field] # <<>> /\ Len(Trim(data[field])) >= minLength

\* the error validateRequired throws for one of the four texts, NoError if none
RequiredTexts(data, fields) ==
  IF "name" \in fields /\ ~validateRequired(data, "name", 2)
  THEN ValidationError("Product name is required (minimum 2 characters)")
  ELSE IF "brand" \in fields /\ ~validateRequired(data, "brand", 2)
  THEN ValidationError("Brand name is required (minimum 2 characters)")
  ELSE IF "category" \in fields /\ ~validateRequired(data, "category", 2)
  THEN ValidationError("Category is required (minimum 2 characters)")
  ELSE IF "imageUrl" \in fields /\ ~validateRequired(data, "imageUrl", 5)
  THEN ValidationError("Image URL is required (minimum 5 characters)")
  ELSE NoError

\* the error thrown for a quantity or commission field both validators check the same
\* way, NoError if none
QuantityError(data) ==
  IF /\ Has(data, "stockQuantity")
     /\ (parseInt(data.stockQuantity).nan \/ parseInt(data.stockQuantity).val < 0)
  THEN ValidationError("Stock quantity must be a non-negative integer")
  ELSE IF /\ Has(data, "minOrderQty")
          /\ (parseInt(data.minOrderQty).nan \/ parseInt(data.minOrderQty).val < 1)
  THEN ValidationError("Minimum order quantity must be at least 1")
  ELSE IF /\ Has(data, "maxOrderQty")
          /\ (parseInt(data.maxOrderQty).nan \/ parseInt(data.maxOrderQty).val < 1)
  THEN ValidationError("Maximum order quantity must be at least 1")
  ELSE NoError

CommissionError(data) ==
  IF Has(data, "commissionType") /\ data.commissionType \notin {"percentage", "fixed"}
  THEN ValidationError("Commission type must be percentage or fixed")
  ELSE IF /\ Has(data, "commissionValue")
          /\ (parseFloat(data.commissionValue).nan \/ parseFloat(data.commissionValue).val < 0)
  THEN ValidationError("Commission value must be a non-negative number")
  ELSE IF /\ Has(data, "commissionValue")
          /\ Has(data, "commissionType")
          /\ data.commissionType = "percentage"
          /\ parseFloat(data.commissionValue).val > 100
  THEN ValidationError("Percentage commission cannot exceed 100%")
  ELSE NoError

\* validateProduct(data): the error thrown, NoError if none
validateProduct(data) ==
  IF RequiredTexts(data, {"name", "brand", "category", "imageUrl"}) # NoError
  THEN RequiredTexts(data, {"name", "brand", "category", "imageUrl"})
  ELSE IF ~Has(data, "mrp") THEN ValidationError("MRP is required")
  ELSE IF parseFloat(data.mrp).nan \/ parseFloat(data.mrp).val <= 0
  THEN ValidationError("MRP must be a positive number")
  ELSE IF ~Has(data, "discountedPrice") THEN ValidationError("Discounted price is required")
  ELSE IF parseFloat(data.discountedPrice).nan \/ parseFloat(data.discountedPrice).val <= 0
  THEN ValidationError("Discounted price must be a positive number")
  ELSE IF parseFloat(data.discountedPrice).val > parseFloat(data.mrp).val
  THEN ValidationError("Discounted price cannot be greater than MRP")
  ELSE IF QuantityError(data) # NoError THEN QuantityError(data)
  ELSE IF /\ Has(data, "maxOrderQty")
          /\ Has(data, "minOrderQty")
          /\ parseInt(data.maxOrderQty).val < parseInt(data.minOrderQty).val
  THEN ValidationError("Maximum order quantity must be greater than or equal to minimum")
  ELSE CommissionError(data)

\* validateProductUpdate(data): only the fields provided are validated
validateProductUpdate(data) ==
  IF RequiredTexts(data, DOMAIN data) # NoError THEN RequiredTexts(data, DOMAIN data)
  ELSE IF /\ Has(data, "mrp")
          /\ (parseFloat(data.mrp).nan \/ parseFloat(data.mrp).val <= 0)
  THEN ValidationError("MRP must be a positive number")
  ELSE IF /\ Has(data, "discountedPrice")
          /\ (parseFloat(data.discountedPrice).nan \/ parseFloat(data.discountedPrice).val <= 0)
  THEN ValidationError("Discounted price must be a positive number")
  ELSE IF /\ Has(data, "discountedPrice")
          /\ Has(data, "mrp")
          /\ parseFloat(data.discountedPrice).val > parseFloat(data.mrp).val
  THEN ValidationError("Discounted price cannot be greater than MRP")
  ELSE IF QuantityError(data) # NoError THEN QuantityError(data)
  ELSE CommissionError(data)

\* generateProductId(): `product_${Date.now()}_${productIdCounter++}`
generateProductId(counter) == <<"product", counter>>

\* calculateCommission(price, commissionType, commissionValue), in hundredths
calculateCommission(price, commissionType, commissionValue) ==
  IF commissionType = "percentage" THEN price * commissionValue ELSE 100 * commissionValue

ProductOutcome(err, status, products, counter) ==
  [err |-> err, status |-> status, message |-> "", productMap |-> products,
   counter |-> counter]

\* the product addProductToStore builds from a validated body
NewProduct(counter, kiranaStoreId, productData, time) ==
  LET commissionType == IF Has(productData, "commissionType")
                        THEN productData.commissionType ELSE "percentage"
      commissionValue == IF Has(productData, "commissionValue")
                         THEN parseFloat(productData.commissionValue).val ELSE 5
  IN [id |-> generateProductId(counter),
      kiranaStoreId |-> kiranaStoreId,
      name |-> productData.name,
      brand |-> productData.brand,
      category |-> productData.category,
      imageUrl |-> productData.imageUrl,
      mrp |-> parseFloat(productData.mrp).val,
      discountedPrice |-> parseFloat(productData.discountedPrice).val,
      stockQuantity |-> IF Has(productData, "stockQuantity")
                        THEN parseInt(productData.stockQuantity).val ELSE 0,
      minOrderQty |-> IF Has(productData, "minOrderQty")
                      THEN parseInt(productData.minOrderQty).val ELSE 1,
      maxOrderQty |-> IF Has(productData, "maxOrderQty")
                      THEN parseInt(productData.maxOrderQty).val ELSE 10,
      commissionType |-> commissionType,
      commissionValue |-> commissionValue,
      isActive |-> TRUE,
      createdAt |-> time,
      updatedAt |-> time,
      calculatedCommission |->
        calculateCommission(parseFloat(productData.discountedPrice).val,
                            commissionType, commissionValue)]

\* addProductToStore with the store lookup its TODO describes: NotFoundError for a
\* store id that storeMap does not have
addProductToStore_requiresStore(products, counter, kiranaStoreId, productData, time) ==
  IF validateProduct(productData) # NoError
  THEN ProductOutcome(validateProduct(productData), 0, products, counter)
  ELSE IF ~MapHas(storeMap, kiranaStoreId)
  THEN ProductOutcome(NotFoundError("Store not found"), 0, products, counter)
  ELSE ProductOutcome(NoError, 201,
                      MapSet(products, generateProductId(counter),
                             NewProduct(counter, kiranaStoreId, productData, time)),
                      counter + 1)

\* addProductToStore(req, res), kiranaStoreId = req.params.id, productData = req.body,
\* time = Date.now(); the store is not looked up
addProductToStore(products, counter, kiranaStoreId, productData, time) ==
  IF validateProduct(productData) # NoError
  THEN ProductOutcome(validateProduct(productData), 0, products, counter)
  ELSE ProductOutcome(NoError, 201,
                      MapSet(products, generateProductId(counter),
                             NewProduct(counter, kiranaStoreId, productData, time)),
                      counter + 1)

\* the parsed value of a number the body gives, the product's value otherwise
Updated(product, updateData, field, parsed(_)) ==
  IF Has(updateData, field) THEN parsed(updateData[field]).val ELSE product[field]

\* updateProduct(req, res), kiranaStoreId = req.params.id, productId = req.params.pid,
\* updateData = req.body; {...product, ...updateData} takes every field the body has
updateProduct(products, counter, kiranaStoreId, productId, updateData, time) ==
  IF DOMAIN updateData # {} /\ validateProductUpdate(updateData) # NoError
  THEN ProductOutcome(validateProductUpdate(updateData), 0, products, counter)
  ELSE IF ~MapHas(products, productId)
  THEN ProductOutcome(NotFoundError("Product not found"), 0, products, counter)
  ELSE IF products[productId].kiranaStoreId # kiranaStoreId
  THEN ProductOutcome(ForbiddenError("Product does not belong to this store"),
                      0, products, counter)
  ELSE LET product == products[productId]
           spread == [k \in DOMAIN product \cup DOMAIN updateData |->
                        IF Has(updateData, k) THEN updateData[k] ELSE product[k]]
           parsed ==
             [spread EXCEPT
                !.mrp = Updated(product, updateData, "mrp", parseFloat),
                !.discountedPrice = Updated(product, updateData, "discountedPrice", parseFloat),
                !.stockQuantity = Updated(product, updateData, "stockQuantity", parseInt),
                !.minOrderQty = Updated(product, updateData, "minOrderQty", parseInt),
                !.maxOrderQty = Updated(product, updateData, "maxOrderQty", parseInt),
                !.commissionValue = Updated(product, updateData, "commissionValue", parseFloat),
                !.updatedAt = time]
           updatedProduct ==
             [parsed EXCEPT !.calculatedCommission =
                calculateCommission(parsed.discountedPrice, parsed.commissionType,
                                    parsed.commissionValue)]
       IN ProductOutcome(NoError, 200, MapSet(products, productId, updatedProduct), counter)

\* removeProduct that does not compare the product's store with the path's
removeProduct_anyStore(products, counter, kiranaStoreId, productId, time) ==
  IF ~MapHas(products, productId)
  THEN ProductOutcome(NotFoundError("Product not found"), 0, products, counter)
  ELSE ProductOutcome(NoError, 200,
                      MapSet(products, productId,
                             [products[productId] EXCEPT !.isActive = FALSE,
                                                         !.updatedAt = time]),
                      counter)

\* removeProduct(req, res): product.isActive = false, product.updatedAt = now
removeProduct(products, counter, kiranaStoreId, productId, time) ==
  IF ~MapHas(products, productId)
  THEN ProductOutcome(NotFoundError("Product not found"), 0, products, counter)
  ELSE IF products[productId].kiranaStoreId # kiranaStoreId
  THEN ProductOutcome(ForbiddenError("Product does not belong to this store"),
                      0, products, counter)
  ELSE ProductOutcome(NoError, 200,
                      MapSet(products, productId,
                             [products[productId] EXCEPT !.isActive = FALSE,
                                                         !.updatedAt = time]),
                      counter)

\* getProduct(req, res), id = req.params.id
getProduct(products, id) ==
  IF ~MapHas(products, id) THEN QueryOutcome(NotFoundError("Product not found"), <<>>)
  ELSE QueryOutcome(NoError, <<products[id]>>)

\* the category, brand and stock filters of a product query; inStock keeps the products
\* in stock when it is 'true' and every product otherwise
FilterProducts(items, q) ==
  LET byCategory ==
        IF Has(q, "category") /\ q.category # <<>>
        THEN SelectSeq(items, LAMBDA p : toLowerCase(p.category) = toLowerCase(q.category))
        ELSE items
      byBrand ==
        IF Has(q, "brand") /\ q.brand # <<>>
        THEN SelectSeq(byCategory,
                       LAMBDA p : Includes(toLowerCase(p.brand), toLowerCase(q.brand)))
        ELSE byCategory
  IN IF Has(q, "inStock") /\ q.inStock = "true"
     THEN SelectSeq(byBrand, LAMBDA p : p.stockQuantity > 0)
     ELSE byBrand

\* listProducts(req, res), q = req.query; the minMargin and maxMargin filters are not
\* modelled
listProducts(products, q) ==
  LET filtered == FilterProducts(ValuesInOrder(products), q)
      ofStore == IF Has(q, "kiranaStoreId")
                 THEN SelectSeq(filtered, LAMBDA p : p.kiranaStoreId = q.kiranaStoreId)
                 ELSE filtered
      byActive == IF Has(q, "isActive")
                  THEN SelectSeq(ofStore, LAMBDA p : p.isActive = (q.isActive = "true"))
                  ELSE ofStore
  IN Paginate(byActive, q)

\* the ids of mockStoreLocations: kirana_1763647047846_1, kirana_1763647083749_2 and
\* kirana_1763648585229_1, ids of the form generateStoreId gives with times that are past
MockStoreIds ==
  {<<"kirana_1763647047846", 1>>, <<"kirana_1763647083749", 2>>,
   <<"kirana_1763648585229", 1>>}

\* mockStoreLocations of getNearbyProducts: (19.076, 72.8777), (19.0825, 72.8808) and
\* (19.076, 72.8777), to the whole degree
mockStoreLocations == [id \in MockStoreIds |-> [latitude |-> 19, longitude |-> 73]]

\* getNearbyProducts(req, res), q = req.query: a product is located by
\* mockStoreLocations[product.kiranaStoreId], not by storeMap
getNearbyProducts(products, q) ==
  IF ~Has(q, "lat") \/ ~Has(q, "lng")
  THEN QueryOutcome(ValidationError("Latitude and longitude are required"), <<>>)
  ELSE IF q.lat = <<>> \/ q.lng = <<>>
  THEN QueryOutcome(ValidationError("Latitude and longitude are required"), <<>>)
  ELSE LET latitude == parseFloat(q.lat)
           longitude == parseFloat(q.lng)
           searchRadius == SearchRadius(q)
           Distance(p) == calculateDistance(latitude.val, longitude.val,
                                            mockStoreLocations[p.kiranaStoreId].latitude,
                                            mockStoreLocations[p.kiranaStoreId].longitude)
       IN IF latitude.nan \/ longitude.nan \/ searchRadius.nan
          THEN QueryOutcome(ValidationError("Invalid coordinates or radius"), <<>>)
          ELSE LET near == SelectSeq(ValuesInOrder(products),
                                     LAMBDA p : /\ p.kiranaStoreId \in MockStoreIds
                                                /\ Distance(p) <= searchRadius.val * 1000
                                                /\ p.isActive)
                   filtered == FilterProducts(near, q)
                   productsWithDistance ==
                     [i \in 1 .. Len(filtered) |->
                        WithField(filtered[i], "distance", Distance(filtered[i]))]
               IN QueryOutcome(NoError, SortByDistance(productsWithDistance))

MaxStores == 3

\* store ids a client can name: the ones generated so far or to come, and another string
IdInputs == {generateStoreId(n) : n \in 1 .. MaxStores} \cup {<<"other", 0>>}

\* owner phones of the store requests
StorePhones == Phones \cup {<<7, 0, 0, 0, 0, 0, 0, 0, 0, 3>>}

CreateBodies ==
  {[NoStoreBody EXCEPT !.valid = v, !.hasPhone = TRUE, !.ownerPhone = p] :
     v \in BOOLEAN, p \in StorePhones \cup BadPhones}
  \cup {NoStoreBody}

UpdateBodies ==
  CreateBodies
  \cup {[NoStoreBody EXCEPT !.hasId = TRUE, !.id = i] : i \in IdInputs}
  \cup {[NoStoreBody EXCEPT !.hasPhone = TRUE, !.ownerPhone = p, !.hasId = TRUE, !.id = i] :
          p \in StorePhones, i \in IdInputs}

InitKirana ==
  /\ storeMap = EmptyMap
  /\ storeIdCounter = 1

\* productController.js: const productMap = new Map(); let productIdCounter = 1
InitProducts ==
  /\ productMap = EmptyMap
  /\ productIdCounter = 1

\* no handler is suspended, the process has not been restarted
InitProcess ==
  /\ inflight = <<>>
  /\ restarts = 0

\* the state a kirana route leaves behind, r the controller's result
KiranaRoute(r) ==
  /\ storeMap' = r.storeMap
  /\ storeIdCounter' = r.counter
  /\ UNCHANGED <<productVars, processVars,
                 now, ticks, nextCleanup, secret, otpStore, userStore, issued,
                 otpVerified, call, result>>

\* POST /api/kirana
CreateStore ==
  /\ storeIdCounter <= MaxStores
  /\ \E body \in CreateBodies : KiranaRoute(createStore(storeMap, storeIdCounter, body))

\* PUT /api/kirana/:id
UpdateStore ==
  \E id \in IdInputs, body \in UpdateBodies :
    KiranaRoute(updateStore(storeMap, storeIdCounter, id, body))

(***************************************************************************)
(* The store queries GET /api/kirana/nearby and GET /api/kirana             *)
(***************************************************************************)
\* a parameter the URL does not give
Undefined == <<"undefined">>

\* the query with the parameters of `given` (parameter -> value) that are given
MakeQuery(given) == [f \in {g \in DOMAIN given : given[g] # Undefined} |-> given[f]]

\* longitudes of the stores, all on the equator
Longitudes == {0, 1, 2}

LatInputs == {Undefined, <<>>, <<"0">>, <<"0", "a">>, <<"a">>}

LngInputs == {Undefined, <<"0">>, <<"1">>, <<"1", " ", "E">>}

RadiusInputs == {Undefined, <<"2", "0", "0">>, <<"-", "1">>, <<"r">>}

NearbyQueries ==
  {MakeQuery([lat |-> lat, lng |-> lng, radius |-> radius]) :
     lat \in LatInputs, lng \in LngInputs, radius \in RadiusInputs}

LimitInputs == {Undefined, <<"1">>, <<"2">>, <<"0">>, <<"-", "1">>, <<"x">>}

OffsetInputs == {Undefined, <<"1">>, <<"-", "1">>, <<"5">>}

ListQueries ==
  {MakeQuery([limit |-> limit, offset |-> offset]) :
     limit \in LimitInputs, offset \in OffsetInputs}
  \cup {[isActive |-> a] : a \in {"true", "false"}}
  \cup {[isActive |-> "true", limit |-> <<"1">>, offset |-> <<"1">>]}

\* bodies that place a store
LocatedBodies ==
  {[NoStoreBody EXCEPT !.hasPhone = TRUE, !.ownerPhone = p, !.hasLocation = TRUE,
                       !.longitude = lon] : p \in StorePhones, lon \in Longitudes}

\* bodies that move a store or set its isActive
RelocationBodies ==
  {[NoStoreBody EXCEPT !.hasLocation = TRUE, !.longitude = lon] : lon \in Longitudes}
  \cup {[NoStoreBody EXCEPT !.hasActive = TRUE, !.isActive = a] : a \in BOOLEAN}

\* POST /api/kirana with a location
CreateStoreAt ==
  /\ storeIdCounter <= MaxStores
  /\ \E body \in LocatedBodies : KiranaRoute(createStore(storeMap, storeIdCounter, body))

\* PUT /api/kirana/:id with a location or isActive
UpdateStoreAt ==
  \E id \in IdInputs, body \in RelocationBodies :
    KiranaRoute(updateStore(storeMap, storeIdCounter, id, body))

\* GET /api/kirana/nearby: answered, no state changes
GetNearbyStores ==
  /\ UNCHANGED vars
  /\ \E q \in NearbyQueries, env \in NodeEnvs :
       RunHandler(getNearbyStores(storeMap, q), env).sent = 1

\* GET /api/kirana: answered, no state changes
ListStores ==
  /\ UNCHANGED vars
  /\ \E q \in ListQueries, env \in NodeEnvs : RunHandler(listStores(storeMap, q), env).sent = 1

(***************************************************************************)
(* The product routes: POST /api/kirana/:id/products,                      *)
(* PUT and DELETE /api/kirana/:id/products/:pid, GET /api/products,        *)
(* GET /api/products/nearby, GET /api/products/:id                         *)
(***************************************************************************)
MaxProducts == 2

\* store ids a product request can name: the first id generateStoreId gives, whether or
\* not a store has it yet, and an id of mockStoreLocations
ProductStoreIds == {generateStoreId(1), <<"kirana_1763647047846", 1>>}

\* product ids a client can name
ProductIdInputs == {generateProductId(n) : n \in 1 .. MaxProducts}

\* { name: 'Tea', brand: 'Taj', category: 'Tea', imageUrl: 't.png', mrp: '100',
\*   discountedPrice: '80' }
BaseProduct ==
  [name |-> <<"T", "e", "a">>, brand |-> <<"T", "a", "j">>, category |-> <<"T", "e", "a">>,
   imageUrl |-> <<"t", ".", "p", "n", "g">>, mrp |-> <<"1", "0", "0">>,
   discountedPrice |-> <<"8", "0">>]

\* {...object, ...more}
Spread(object, more) ==
  [k \in DOMAIN object \cup DOMAIN more |-> IF Has(more, k) THEN more[k] ELSE object[k]]

\* bodies of POST /api/kirana/:id/products: BaseProduct with fields added or changed
ProductBodies ==
  {Spread(BaseProduct, change) :
     change \in {<<>>,
                 [commissionValue |-> <<"1", "5", "0">>],
                 [commissionType |-> "fixed", commissionValue |-> <<"1", "5", "0">>],
                 [commissionType |-> "percentage", commissionValue |-> <<"1", "5", "0">>],
                 [minOrderQty |-> <<"2", "0">>],
                 [minOrderQty |-> <<"2", "0">>, maxOrderQty |-> <<"5">>],
                 [stockQuantity |-> <<"3">>, category |-> <<"o", "i", "l">>],
                 [discountedPrice |-> <<"1", "5", "0">>],
                 [name |-> <<"T">>]}}

\* bodies of PUT /api/kirana/:id/products/:pid
ProductUpdates ==
  {<<>>,
   [discountedPrice |-> <<"1", "5", "0">>],
   [mrp |-> <<"1", "0", "0">>, discountedPrice |-> <<"1", "5", "0">>],
   [commissionValue |-> <<"1", "5", "0">>],
   [commissionType |-> "percentage", commissionValue |-> <<"1", "5", "0">>],
   [minOrderQty |-> <<"2", "0">>],
   [isActive |-> TRUE]}

ProductCoordinates == {<<Undefined, <<"0">>>>, <<<<"a">>, <<"0">>>>, <<<<"0">>, <<"0">>>>,
                       <<<<"1", "9">>, <<"7", "3">>>>, <<<<"2", "0">>, <<"7", "3">>>>}

ProductFilters ==
  {<<>>, [category |-> <<"t", "e", "a">>], [brand |-> <<"a", "j">>], [inStock |-> "true"],
   [inStock |-> "false"]}

\* queries of GET /api/products/nearby
NearbyProductQueries ==
  {Spread(MakeQuery([lat |-> at[1], lng |-> at[2], radius |-> radius]), filter) :
     at \in ProductCoordinates, radius \in {Undefined, <<"2", "0", "0">>},
     filter \in ProductFilters}

\* queries of GET /api/products
ProductListQueries ==
  ListQueries
  \cup ProductFilters
  \cup {[kiranaStoreId |-> id] : id \in ProductStoreIds}
  \cup {[isActive |-> "true", inStock |-> "true"]}

\* the state a product route leaves behind, r the controller's result
ProductRoute(r) ==
  /\ productMap' = r.productMap
  /\ productIdCounter' = r.counter
  /\ UNCHANGED <<processVars, now, ticks, nextCleanup, secret, otpStore, userStore, issued,
                 otpVerified, storeMap, storeIdCounter, call, result>>

\* POST /api/kirana/:id/products
AddProduct ==
  /\ productIdCounter <= MaxProducts
  /\ \E id \in ProductStoreIds, body \in ProductBodies :
       ProductRoute(addProductToStore(productMap, productIdCounter, id, body, now))

\* PUT /api/kirana/:id/products/:pid
UpdateProduct ==
  \E id \in ProductStoreIds, pid \in ProductIdInputs, body \in ProductUpdates :
    ProductRoute(updateProduct(productMap, productIdCounter, id, pid, body, now))

\* DELETE /api/kirana/:id/products/:pid
RemoveProduct ==
  \E id \in ProductStoreIds, pid \in ProductIdInputs :
    ProductRoute(removeProduct(productMap, productIdCounter, id, pid, now))

\* GET /api/products: answered, no state changes
ListProducts ==
  /\ UNCHANGED vars
  /\ \E q \in ProductListQueries, env \in NodeEnvs :
       RunHandler(listProducts(productMap, q), env).sent = 1

\* GET /api/products/nearby: answered, no state changes
GetNearbyProducts ==
  /\ UNCHANGED vars
  /\ \E q \in NearbyProductQueries, env \in NodeEnvs :
       RunHandler(getNearbyProducts(productMap, q), env).sent = 1

\* GET /api/products/:id: answered, no state changes
GetProduct ==
  /\ UNCHANGED vars
  /\ \E pid \in ProductIdInputs, env \in NodeEnvs :
       RunHandler(getProduct(productMap, pid), env).sent = 1

\* POST /api/kirana of the owner PhoneA, on the equator at longitude 0
CreateOwnStore ==
  /\ storeIdCounter <= MaxStores
  /\ \E body \in {b \in LocatedBodies : b.ownerPhone = PhoneA /\ b.longitude = 0} :
       KiranaRoute(createStore(storeMap, storeIdCounter, body))

\* PUT /api/kirana/:id of that store: it moves
UpdateOwnStore ==
  \E body \in {b \in RelocationBodies : b.hasLocation /\ b.longitude \in {0, 2}} :
    KiranaRoute(updateStore(storeMap, storeIdCounter, generateStoreId(1), body))

(***************************************************************************)
(* Restart of the process. The stores are constants of their modules,      *)
(* created when the module is loaded; process.env.JWT_SECRET is            *)
(* configuration and the same after a restart; the clock goes on; a client *)
(* keeps the token it was sent.                                            *)
(***************************************************************************)
MaxRestarts == 1

\* the first POST /api/kirana/:id/products, with the body BaseProduct for the first
\* store id
AddBaseProduct ==
  /\ productMap = EmptyMap
  /\ ProductRoute(addProductToStore(productMap, productIdCounter, generateStoreId(1),
                                    BaseProduct, now))

\* a restart that keeps the users
Restart_keepsUsers ==
  /\ restarts < MaxRestarts
  /\ restarts' = restarts + 1
  /\ otpStore' = EmptyMap
  /\ storeMap' = EmptyMap
  /\ storeIdCounter' = 1
  /\ productMap' = EmptyMap
  /\ productIdCounter' = 1
  /\ nextCleanup' = now + CLEANUP_INTERVAL_MS
  /\ inflight' = <<>>
  /\ UNCHANGED <<userStore, now, ticks, secret, issued, otpVerified, call, result>>

\* the process exits and is started again: every module is loaded anew
Restart ==
  /\ restarts < MaxRestarts
  /\ restarts' = restarts + 1
  /\ otpStore' = EmptyMap
  /\ userStore' = EmptyMap
  /\ storeMap' = EmptyMap
  /\ storeIdCounter' = 1
  /\ productMap' = EmptyMap
  /\ productIdCounter' = 1
  /\ nextCleanup' = now + CLEANUP_INTERVAL_MS
  /\ inflight' = <<>>
  /\ UNCHANGED <<now, ticks, secret, issued, otpVerified, call, result>>

(***************************************************************************)
(* Handlers in flight. An async handler runs without interruption up to an *)
(* await; there it is suspended, and the rest of it is a job of the        *)
(* microtask queue, run in the order of suspension. Node runs that queue   *)
(* when the callbacks of the current turn have returned, so the handlers   *)
(* of requests whose bodies ended in one turn (requests pipelined on one   *)
(* connection) are all started before any of them is resumed. signup       *)
(* awaits sendOTP (which runs to its end when called) between              *)
(* userStore.has and userStore.set; createStore has no await.              *)
(***************************************************************************)
MaxInflight == 2

\* POST /api/auth/signup up to `await sendOTP(phone)`: a request that is rejected is
\* answered, another is suspended with the OTP stored
SignupStart ==
  /\ Len(inflight) < MaxInflight
  /\ \E body \in SignupBodies, code \in Codes :
       LET r == signup(userStore, otpStore, body, code, now)
       IN /\ otpStore' = r.otpStore
          /\ inflight' = IF r.err = NoError
                         THEN Append(inflight, [handler |-> "signup", body |-> body])
                         ELSE inflight
  /\ UNCHANGED <<productVars, restarts, now, ticks, nextCleanup, secret, userStore, issued,
                 otpVerified, storeMap, storeIdCounter, call, result>>

\* the rest of signup, for the handler suspended first: userStore.set(phone, {...}) and
\* the response 200
SignupResume ==
  /\ inflight # <<>>
  /\ LET body == Head(inflight).body
     IN userStore' = MapSet(userStore, body.phone,
                            [id |-> generateUserId(userStore),
                             phone |-> body.phone,
                             name |-> Trim(body.name),
                             role |-> "customer",
                             isVerified |-> FALSE])
  /\ inflight' = Tail(inflight)
  /\ UNCHANGED <<productVars, restarts, now, ticks, nextCleanup, secret, otpStore, issued,
                 otpVerified, storeMap, storeIdCounter, call, result>>

(***************************************************************************)
(* Specifications                                                          *)
(***************************************************************************)
\* the auth routes, the clock and the OTP cleanup timer
Init ==
  /\ InitAuth
  /\ InitKirana
  /\ InitProducts
  /\ InitProcess
  /\ call = NoCall
  /\ result = NoResult

Next == Signup \/ Login \/ VerifyOtp \/ GetMe \/ Logout \/ Tick \/ CleanupTimer

Spec == Init /\ [][Next]_vars

\* the kirana store routes
NextStores == CreateStore \/ UpdateStore

SpecStores == Init /\ [][NextStores]_vars

\* the kirana store routes with locations, and the store queries
NextStoreQueries == CreateStoreAt \/ UpdateStoreAt \/ GetNearbyStores \/ ListStores

SpecStoreQueries == Init /\ [][NextStoreQueries]_vars

\* the product routes, and the routes of the store the products are added to
NextProducts ==
  \/ AddProduct \/ UpdateProduct \/ RemoveProduct
  \/ ListProducts \/ GetNearbyProducts \/ GetProduct
  \/ CreateOwnStore \/ UpdateOwnStore

SpecProducts == Init /\ [][NextProducts]_vars

\* sign-up, OTP verification, the protected routes, a store and its products, the clock,
\* and a restart
NextRestart ==
  \/ Signup \/ VerifyOtp \/ GetMe \/ Logout \/ Tick
  \/ CreateOwnStore \/ AddBaseProduct \/ Restart

SpecRestart == Init /\ [][NextRestart]_vars

\* sign-ups in flight together, and store creation
NextConcurrent == SignupStart \/ SignupResume \/ CreateStore

SpecConcurrent == Init /\ [][NextConcurrent]_vars

(***************************************************************************)
(* The authorize middleware in a chain router.x(path, authorize(...), h)   *)
(***************************************************************************)
Roles == {"customer", "kirana", "admin"}

\* req.user as authenticate leaves it: unset, or the payload of a token
UserInputs ==
  {NoUser} \cup {[set |-> TRUE, userId |-> 1, phone |-> PhoneA, role |-> role] : role \in Roles}

AuthorizeCalls ==
  {[NoCall EXCEPT !.kind = "authorize", !.roles = roles, !.user = user, !.env = env] :
     roles \in SUBSET Roles, user \in UserInputs, env \in NodeEnvs}
  \cup {[NoCall EXCEPT !.kind = kind, !.user = user, !.env = env] :
          kind \in {"isCustomer", "isKirana", "isAdmin"}, user \in UserInputs, env \in NodeEnvs}

\* the middleware of the call
CallMiddleware(c) ==
  IF c.kind = "isCustomer" THEN isCustomer(c.user)
  ELSE IF c.kind = "isKirana" THEN isKirana(c.user)
  ELSE IF c.kind = "isAdmin" THEN isAdmin(c.user)
  ELSE authorize(c.roles, c.user)

InitAuthorize ==
  /\ InitAuth
  /\ InitKirana
  /\ InitProducts
  /\ InitProcess
  /\ secret
  /\ call \in AuthorizeCalls
  /\ result = NoResult

\* the request goes through the middleware: on next() the next handler runs and
\* answers, on next(err) Express skips to the error handler
Authorize ==
  /\ ~result.done
  /\ LET err == CallMiddleware(call) IN
     result' = [done |-> TRUE,
                nextCalls |-> <<err>>,
                handlerRan |-> (err = NoError),
                responses |-> <<Dispatch(asyncHandler(err), Success(200, ""), call.env)>>]
  /\ UNCHANGED <<productVars, processVars,
                 now, ticks, nextCleanup, secret, otpStore, userStore, issued, otpVerified,
                 storeMap, storeIdCounter, call>>

NextAuthorize == Authorize

SpecAuthorize == InitAuthorize /\ [][NextAuthorize]_vars

(***************************************************************************)
(* The global error handler and the 404 handler at the end of app.js       *)
(***************************************************************************)
\* the messages of verifyOTP's errors
MsgNoOtp == "No OTP found for this phone number. Please request a new OTP."
MsgExpired == "OTP has expired. Please request a new OTP."
MsgMaxAttempts == "Maximum verification attempts exceeded. Please request a new OTP."
MsgInvalidOtp == "Invalid OTP. attempts remaining."

\* messages the program's code gives its errors, and the empty message
ErrorMessages ==
  {"", "Store not found", "Phone number already registered. Please login instead."}

\* body-parser's error for a body that is not JSON
JsonParseError ==
  [BaseError EXCEPT !.class = "SyntaxError", !.name = "SyntaxError", !.isSyntaxError = TRUE,
                    !.message = "Unexpected token", !.hasStatus = TRUE, !.statusCode = 400,
                    !.status = 400, !.hasBody = TRUE]

\* body-parser's error for a body over the 10mb limit
PayloadTooLargeError ==
  [BaseError EXCEPT !.class = "PayloadTooLargeError", !.name = "PayloadTooLargeError",
                    !.message = "request entity too large", !.hasStatus = TRUE,
                    !.statusCode = 413, !.status = 413]

\* a TypeError raised by the runtime in a handler
RuntimeTypeError ==
  [BaseError EXCEPT !.class = "TypeError", !.name = "TypeError",
                    !.message = "Cannot read properties of undefined"]

\* the errors that reach the error handler: instances of the classes of errors.js,
\* AppError with a status of its own, errors without statusCode, body-parser's errors
ErrorInputs ==
  {ValidationError(m) : m \in ErrorMessages}
  \cup {AuthError(m) : m \in ErrorMessages}
  \cup {ForbiddenError(m) : m \in ErrorMessages}
  \cup {NotFoundError(m) : m \in ErrorMessages}
  \cup {ConflictError(m) : m \in ErrorMessages}
  \cup {InternalError(m) : m \in ErrorMessages}
  \cup {ServiceUnavailableError(m) : m \in ErrorMessages}
  \cup {AppError(m, 500) : m \in ErrorMessages}
  \cup {[ValidationError(MsgInvalidOtp) EXCEPT !.arg = n] : n \in 0 .. MAX_ATTEMPTS - 1}
  \cup {PlainError(m) : m \in ErrorMessages}
  \cup {SecretError, JsonParseError, PayloadTooLargeError, RuntimeTypeError}

ErrorCalls ==
  {[NoCall EXCEPT !.kind = "error", !.err = err, !.env = env] :
     err \in ErrorInputs, env \in NodeEnvs}
  \cup {[NoCall EXCEPT !.kind = "unmatched", !.env = env] : env \in NodeEnvs}

InitErrors ==
  /\ InitAuth
  /\ InitKirana
  /\ InitProducts
  /\ InitProcess
  /\ secret
  /\ call \in ErrorCalls
  /\ result = NoResult

\* a route handler or a body parser fails with call.err: next(err) reaches errorHandler
HandleError ==
  /\ ~result.done
  /\ call.kind = "error"
  /\ LET nextCalls == asyncHandler(call.err) IN
     result' = [done |-> TRUE,
                nextCalls |-> nextCalls,
                handlerRan |-> FALSE,
                responses |-> [i \in 1 .. Len(nextCalls) |-> errorHandler(nextCalls[i], call.env)]]
  /\ UNCHANGED <<productVars, processVars,
                 now, ticks, nextCleanup, secret, otpStore, userStore, issued, otpVerified,
                 storeMap, storeIdCounter, call>>

\* a request that no route matches falls through to app.use(notFound)
UnmatchedRoute ==
  /\ ~result.done
  /\ call.kind = "unmatched"
  /\ result' = [done |-> TRUE,
                nextCalls |-> <<notFound>>,
                handlerRan |-> FALSE,
                responses |-> <<errorHandler(notFound, call.env)>>]
  /\ UNCHANGED <<productVars, processVars,
                 now, ticks, nextCleanup, secret, otpStore, userStore, issued, otpVerified,
                 storeMap, storeIdCounter, call>>

NextErrors == HandleError \/ UnmatchedRoute

SpecErrors == InitErrors /\ [][NextErrors]_vars

(***************************************************************************)
(* The two wrappers applied to a handler                                   *)
(***************************************************************************)
HandlerKinds == {"resolves", "rejects", "throws"}

\* the handlers: one that succeeds, and for each error one that is rejected with it and
\* one that throws it
WrapperCalls ==
  {[NoCall EXCEPT !.kind = "resolves"]}
  \cup {[NoCall EXCEPT !.kind = kind, !.err = err] :
          kind \in {"rejects", "throws"}, err \in ErrorInputs}

InitWrappers ==
  /\ InitAuth
  /\ InitKirana
  /\ InitProducts
  /\ InitProcess
  /\ secret
  /\ call \in WrapperCalls
  /\ result = NoResult

\* the state after wrapper(fn)(req, res, next), r what the wrapper did
WrapperCalled(wrapper, r) ==
  /\ result' = [done |-> TRUE, nextCalls |-> r.nextCalls, handlerRan |-> TRUE,
                responses |-> <<>>, thrown |-> r.thrown, wrapper |-> wrapper]
  /\ UNCHANGED <<productVars, processVars,
                 now, ticks, nextCleanup, secret, otpStore, userStore, issued, otpVerified,
                 storeMap, storeIdCounter, call>>

\* asyncHandler(fn)(req, res, next)
CallAsyncHandler ==
  /\ ~result.done
  /\ WrapperCalled("asyncHandler", asyncHandlerWrap(call))

\* asyncHandlerAlt(fn)(req, res, next)
CallAsyncHandlerAlt ==
  /\ ~result.done
  /\ WrapperCalled("asyncHandlerAlt", asyncHandlerAlt(call))

NextWrappers == CallAsyncHandler \/ CallAsyncHandlerAlt

SpecWrappers == InitWrappers /\ [][NextWrappers]_vars

(***************************************************************************)
(* Properties of the OTP service                                           *)
(***************************************************************************)

\* the stored OTP of phone can still be used at the current time
Usable(phone) ==
  /\ MapHas(otpStore, phone)
  /\ now <= otpStore[phone].expiresAt
  /\ otpStore[phone].attempts < 3

\* C1, in every reachable state: verifyOTP(phone, otp) succeeds exactly when otp is the
\* stored code of phone, the expiry time has not passed and fewer than 3 attempts were
\* made, and then the stored OTP is gone; with no stored OTP it fails with 'No OTP
\* found' and stores nothing
C1_VerifyContract ==
  \A phone \in Phones, otp \in Codes :
    LET r == verifyOTP(otpStore, phone, otp, now) IN
    /\ (r.err = NoError) <=> (Usable(phone) /\ otpStore[phone].otp = otp)
    /\ (r.err = NoError) => ~MapHas(r.store, phone)
    /\ ~MapHas(otpStore, phone) => (r.err.message = MsgNoOtp /\ r.store = otpStore)

\* C1, in every step: an OTP appears for a phone only as a fresh one (sendOTP), and a
\* phone whose OTP was accepted in this step has no stored OTP afterwards
C1_OnlySendStores ==
  \A phone \in Phones :
    /\ (~MapHas(otpStore, phone) /\ MapHas(otpStore', phone))
         => (otpStore'[phone].attempts = 0 /\ otpStore'[phone].createdAt = now)
    /\ (phone \notin otpVerified /\ phone \in otpVerified') => ~MapHas(otpStore', phone)

\* C1: an OTP is accepted at most once: a verifyOTP with the stored code, made no later
\* than the expiry time and after fewer than 3 attempts, succeeds and deletes the OTP;
\* every later verifyOTP for the phone fails with 'No OTP found' until sendOTP stores a
\* new one
C1_OtpAcceptedOnce == [](C1_VerifyContract) /\ [][C1_OnlySendStores]_vars

\* C1 witness: an OTP was accepted, is gone, and verifying its phone again fails
C1_Witness ==
  \E phone \in otpVerified :
    /\ ~MapHas(otpStore, phone)
    /\ \A otp \in Codes : verifyOTP(otpStore, phone, otp, now).err.message = MsgNoOtp

C3_Expiry ==
  \A phone \in DOMAIN otpStore :
    /\ otpStore[phone].expiresAt = otpStore[phone].createdAt + (5 * 60 * 1000)
    /\ \A otp \in Codes :
         LET r == verifyOTP(otpStore, phone, otp, now) IN
         /\ now > otpStore[phone].expiresAt
              => (r.err.message = MsgExpired /\ ~MapHas(r.store, phone))
         /\ now <= otpStore[phone].expiresAt => r.err.message # MsgExpired

\* C3 witness: an expired OTP on which all 3 attempts were used is verified
C3_Witness ==
  \E phone \in DOMAIN otpStore :
    /\ now > otpStore[phone].expiresAt
    /\ otpStore[phone].attempts = 3
    /\ verifyOTP(otpStore, phone, otpStore[phone].otp, now).err.message = MsgExpired

(***************************************************************************)
(* Properties of the auth routes                                           *)
(***************************************************************************)
\* the body carries the stored, still usable code of its phone
OtpMatches(body) == Usable(body.phone) /\ otpStore[body.phone].otp = body.otp

\* what every verify-otp request satisfies, r being the controller's result: a token
\* is issued, for the user of the phone, only on success; the user store changes only
\* after a successful OTP check for a registered phone, and only by that user's
\* isVerified becoming true
C4_Always(body, r) ==
  /\ r.token # NoToken
       => /\ r.err = NoError
          /\ OtpMatches(body)
          /\ MapHas(userStore, body.phone)
          /\ r.token.phone = body.phone
          /\ r.token.userId = userStore[body.phone].id
  /\ r.userStore # userStore
       => /\ OtpMatches(body)
          /\ MapHas(userStore, body.phone)
          /\ r.userStore = [userStore EXCEPT ![body.phone].isVerified = TRUE]
  /\ r.err = NoError => (r.token # NoToken /\ r.userStore[body.phone].isVerified)

\* a verified user has had a successful OTP verification for their phone
VerifiedOnlyByOtp ==
  \A phone \in DOMAIN userStore : userStore[phone].isVerified => phone \in otpVerified

\* C4 as stated: verifyOTPAndLogin returns a token and sets isVerified only when
\* verifyOTP succeeded and the user exists; on every failing path no token is issued and
\* isVerified is not changed; a verified user has had a successful OTP verification
C4_AsStated ==
  /\ VerifiedOnlyByOtp
  /\ \A body \in VerifyBodies :
       LET r == verifyOTPAndLogin(userStore, otpStore, body, now, secret) IN
       /\ C4_Always(body, r)
       /\ r.err # NoError => (r.token = NoToken /\ r.userStore = userStore)

\* C4 amended: as C4, except that the failing path on which token generation fails
\* (JWT_SECRET not configured) comes after the OTP was verified: no token is issued
\* but isVerified has been set to true
C4_TokenOnlyAfterOtp ==
  /\ VerifiedOnlyByOtp
  /\ \A body \in VerifyBodies :
       LET r == verifyOTPAndLogin(userStore, otpStore, body, now, secret) IN
       /\ C4_Always(body, r)
       /\ (r.err # NoError /\ r.err # SecretError)
            => (r.token = NoToken /\ r.userStore = userStore)
       /\ r.err = SecretError
            => /\ ~secret
               /\ OtpMatches(body)
               /\ r.token = NoToken
               /\ r.userStore = [userStore EXCEPT ![body.phone].isVerified = TRUE]

\* C4 witness: a user was verified and logged in with a token
C4_Witness ==
  \E phone \in DOMAIN issued :
    /\ userStore[phone].isVerified
    /\ phone \in otpVerified
    /\ issued[phone].phone = phone

\* the server accepts the header: 'Bearer <token>' with a token it issued, not expired
Accepted(header) ==
  /\ Len(header) = 2
  /\ header[1] = "Bearer"
  /\ header[2] \in MapValues(issued)
  /\ secret
  /\ (now \div 1000) < header[2].iat + TOKEN_EXPIRY_SECONDS

\* the traces of the two protected routes for a header
ProtectedRuns(header) ==
  {MeRoute(header, env) : env \in NodeEnvs} \cup {LogoutRoute(header, env) : env \in NodeEnvs}

\* C5 as stated: the controller of /me and /logout runs only for an accepted
\* 'Bearer <token>' header; otherwise authenticate passes an AuthError (401) to next,
\* req.user stays unset and the controller is not invoked
C5_AsStated ==
  \A header \in HeaderInputs : \A run \in ProtectedRuns(header) :
    /\ run.controller <=> Accepted(header)
    /\ run.controller => (run.user.set /\ run.user.phone = header[2].phone)
    /\ ~Accepted(header)
         => /\ ~run.user.set
            /\ run.nextErr.class = "AuthError"
            /\ run.resp.status = 401

\* the header has the form 'Bearer <token>' with a non-empty token
BearerForm(header) == Len(header) = 2 /\ header[1] = "Bearer" /\ header[2] # EmptyToken

\* C5 amended: as C5, except that when JWT_SECRET is not configured a header of the
\* form 'Bearer <token>' makes authenticate pass a plain Error, answered with 500
C5_ProtectedRoutes ==
  \A header \in HeaderInputs : \A run \in ProtectedRuns(header) :
    /\ run.controller <=> Accepted(header)
    /\ run.controller => (run.user.set /\ run.user.phone = header[2].phone)
    /\ ~Accepted(header)
         => /\ ~run.user.set
            /\ (secret \/ ~BearerForm(header))
                 => (run.nextErr.class = "AuthError" /\ run.resp.status = 401)
            /\ (~secret /\ BearerForm(header))
                 => (run.nextErr = SecretError /\ run.resp.status = 500)

\* C5 witness: the client of one phone holds a token that is accepted, another one a
\* token that has expired
C5_Witness ==
  \E p1 \in DOMAIN issued, p2 \in DOMAIN issued :
    /\ MeRoute(<<"Bearer", issued[p1]>>, "production").controller
    /\ ~MeRoute(<<"Basic", issued[p1]>>, "production").controller
    /\ MeRoute(<<"Bearer", issued[p2]>>, "production").nextErr
         = AuthError("Token has expired. Please login again.")

\* the body's phone and name pass signup's validation
ValidPhone(phone) == phone \in Phones \cup StorePhones
ValidName(name) == name = <<"A", "l">>

\* C8: signup with a phone that has a user record, verified or not, fails with
\* ConflictError (409); with an invalid phone or a name shorter than 2 characters after
\* trimming it fails with ValidationError (400); both leave userStore and otpStore as
\* they were (no OTP is issued)
C8_SignupRejects ==
  \A body \in SignupBodies, code \in Codes :
    LET r == signup(userStore, otpStore, body, code, now) IN
    /\ (ValidPhone(body.phone) /\ ValidName(body.name) /\ MapHas(userStore, body.phone))
         => /\ r.err.class = "ConflictError"
            /\ \A env \in NodeEnvs : RunHandler(r, env).resp.status = 409
    /\ (~ValidPhone(body.phone) \/ ~ValidName(body.name))
         => /\ r.err.class = "ValidationError"
            /\ \A env \in NodeEnvs : RunHandler(r, env).resp.status = 400
    /\ (MapHas(userStore, body.phone) \/ ~ValidPhone(body.phone) \/ ~ValidName(body.name))
         => (r.err # NoError /\ r.userStore = userStore /\ r.otpStore = otpStore)

\* C8 witness: a verified and an unverified user are registered, the unverified one
\* with no OTP stored, and signup for each is refused
C8_Witness ==
  \E p1 \in DOMAIN userStore, p2 \in DOMAIN userStore :
    /\ userStore[p1].isVerified
    /\ ~userStore[p2].isVerified
    /\ ~MapHas(otpStore, p2)
    /\ \A p \in {p1, p2}, code \in Codes :
         signup(userStore, otpStore, [phone |-> p, name |-> <<"A", "l">>], code, now).err.class
           = "ConflictError"

C10_UniqueOwnerPhone ==
  \A k1 \in DOMAIN storeMap, k2 \in DOMAIN storeMap :
    k1 # k2 => storeMap[k1].ownerPhone # storeMap[k2].ownerPhone

(***************************************************************************)
(* Properties of the middleware                                            *)
(***************************************************************************)
\* the roles the call lets through
AllowedRoles(c) ==
  IF c.kind = "isCustomer" THEN {"customer"}
  ELSE IF c.kind = "isKirana" THEN {"kirana"}
  ELSE IF c.kind = "isAdmin" THEN {"admin"}
  ELSE c.roles

\* C6: authorize(...roles) calls next() with no error, so that the next handler runs,
\* only when req.user is set and its role is one of roles; with req.user missing it
\* passes AuthError (401), with a role not in roles ForbiddenError (403), and in both
\* cases the next handler is not run
C6_Authorize ==
  result.done =>
    LET err == result.nextCalls[1]
        passes == call.user.set /\ call.user.role \in AllowedRoles(call)
    IN /\ Len(result.nextCalls) = 1
       /\ (err = NoError) <=> passes
       /\ result.handlerRan <=> passes
       /\ ~call.user.set
            => (err.class = "AuthError" /\ err.statusCode = 401
                /\ result.responses[1].status = 401)
       /\ (call.user.set /\ call.user.role \notin AllowedRoles(call))
            => (err.class = "ForbiddenError" /\ err.statusCode = 403
                /\ result.responses[1].status = 403)

\* C6 witness: an authenticated user whose role is not among the several allowed was
\* refused with ForbiddenError
C6_Witness ==
  /\ result.done
  /\ call.kind = "authorize"
  /\ Cardinality(call.roles) = 2
  /\ call.user.set
  /\ call.user.role \notin call.roles
  /\ result.nextCalls = <<ForbiddenError("Access denied. Required roles")>>
  /\ ~result.handlerRan

\* the HTTP status of each class of errors.js
ClassStatus ==
  [ValidationError |-> 400, AuthError |-> 401, ForbiddenError |-> 403, NotFoundError |-> 404,
   ConflictError |-> 409, InternalError |-> 500, ServiceUnavailableError |-> 503]

\* C7: an error that reaches errorHandler produces exactly one response, with body
\* {success: false, error: {message, statusCode}} and HTTP status equal to the error's
\* statusCode (400, 401, 403, 404, 409, 500, 503 for the classes of errors.js), 500 for
\* an error without statusCode; an unmatched route is answered this way with 404
C7_ErrorResponses ==
  result.done =>
    /\ Len(result.responses) = 1
    /\ LET resp == result.responses[1] IN
       /\ ~resp.success
       /\ resp.statusCode = resp.status
       /\ call.kind = "error"
            => /\ resp.status = IF call.err.hasStatus THEN call.err.statusCode ELSE 500
               /\ call.err.class \in DOMAIN ClassStatus
                    => resp.status = ClassStatus[call.err.class]
       /\ call.kind = "unmatched" => resp.status = 404

\* C7 witness: a ConflictError was answered with 409
C7_Witness ==
  /\ result.done
  /\ call.kind = "error"
  /\ call.err.class = "ConflictError"
  /\ result.responses[1].status = 409

(***************************************************************************)
(* Properties of the store and product queries                             *)
(***************************************************************************)
\* the string is a whole number throughout: a sign and digits, spaces around
IsNumeric(s) ==
  LET t == Trim(s)
      body == IF t # <<>> /\ Head(t) \in {"-", "+"} THEN Tail(t) ELSE t
  IN body # <<>> /\ \A i \in 1 .. Len(body) : IsDigit(body[i])

\* the items are in order of non-decreasing distance
SortedByDistance(items) ==
  \A i \in 1 .. Len(items), j \in 1 .. Len(items) :
    i < j => items[i].distance <= items[j].distance

\* C11: getNearbyStores returns exactly the active stores within radius (default 5 km)
\* of (lat, lng), by non-decreasing distance, count being their number; a missing lat
\* or lng, or a non-numeric lat, lng or radius, gives ValidationError (400)
C11_NearbyStores ==
  \A q \in NearbyQueries :
    LET r == getNearbyStores(storeMap, q)
        rejected == \/ ~Has(q, "lat") \/ ~Has(q, "lng")
                    \/ ~IsNumeric(q.lat) \/ ~IsNumeric(q.lng)
                    \/ (Has(q, "radius") /\ ~IsNumeric(q.radius))
    IN IF rejected
       THEN r.err.class = "ValidationError" /\ r.err.statusCode = 400
       ELSE LET lat == parseFloat(q.lat).val
                lng == parseFloat(q.lng).val
                radius == IF Has(q, "radius") THEN parseFloat(q.radius).val ELSE 5
                Distance(st) == calculateDistance(lat, lng, st.latitude, st.longitude)
                near == {k \in DOMAIN storeMap :
                           /\ storeMap[k].isActive
                           /\ Distance(storeMap[k]) <= radius * 1000}
            IN /\ r.err = NoError
               /\ {r.items[i] : i \in 1 .. Len(r.items)}
                    = {WithField(storeMap[k], "distance", Distance(storeMap[k])) : k \in near}
               /\ Len(r.items) = Cardinality(near)
               /\ r.count = Len(r.items)
               /\ SortedByDistance(r.items)

\* the product passes the category, brand and inStock filters of the query
PassesFilters(p, q) == FilterProducts(<<p>>, q) # <<>>

\* the store the product names is in storeMap and lies within the query's radius of
\* the query's point
StoreWithinRadius(p, q) ==
  /\ MapHas(storeMap, p.kiranaStoreId)
  /\ calculateDistance(parseFloat(q.lat).val, parseFloat(q.lng).val,
                       storeMap[p.kiranaStoreId].latitude,
                       storeMap[p.kiranaStoreId].longitude)
       <= SearchRadius(q).val * 1000

\* C12: for numeric lat, lng and radius getNearbyProducts returns exactly the active
\* products whose store, at the place storeMap has for it, lies within radius of
\* (lat, lng) and that pass the category, brand and inStock filters, ordered by
\* non-decreasing distance, with count the number returned
C12_NearbyProducts ==
  \A q \in NearbyProductQueries :
    LET r == getNearbyProducts(productMap, q)
    IN (/\ Has(q, "lat") /\ IsNumeric(q.lat)
        /\ Has(q, "lng") /\ IsNumeric(q.lng)
        /\ (Has(q, "radius") => IsNumeric(q.radius)))
       => /\ r.err = NoError
          /\ {r.items[i].id : i \in 1 .. Len(r.items)}
               = {p.id : p \in {x \in MapValues(productMap) :
                                  x.isActive /\ StoreWithinRadius(x, q) /\ PassesFilters(x, q)}}
          /\ Len(r.items) = Cardinality({r.items[i].id : i \in 1 .. Len(r.items)})
          /\ r.count = Len(r.items)
          /\ SortedByDistance(r.items)

\* the query without its limit and offset
Unpaged(q) == [k \in DOMAIN q \ {"limit", "offset"} |-> q[k]]

\* limit and offset are whole numbers where the query gives them
WholePaging(q) ==
  /\ Has(q, "limit") => IsNumeric(q.limit)
  /\ Has(q, "offset") => IsNumeric(q.offset)

\* r is the page of the list all that the query's offset and limit (defaults 0 and 20)
\* select: the items of all at the indices from offset up to, not including,
\* offset + limit, counted from 0; total is the length of all, hasMore says whether
\* offset + limit < total
IsPage(r, all, q) ==
  LET limit == IF Has(q, "limit") THEN parseInt(q.limit).val ELSE 20
      offset == IF Has(q, "offset") THEN parseInt(q.offset).val ELSE 0
      first == IF offset < 0 THEN 1 ELSE offset + 1
      last == IF offset + limit > Len(all) THEN Len(all) ELSE offset + limit
  IN /\ r.err = NoError
     /\ r.items = SubSeq(all, first, last)
     /\ r.items # <<>> => Len(r.items) <= limit
     /\ r.total = Len(all)
     /\ r.hasMore = (offset + limit < Len(all))

\* C13: listStores and listProducts return the items of the filtered result from index
\* offset up to offset + limit (defaults 0 and 20), at most limit items; total is the
\* size of the filtered result and hasMore is true exactly when offset + limit < total
C13_Pagination ==
  /\ \A q \in ListQueries :
       WholePaging(q)
       => IsPage(listStores(storeMap, q), listStores(storeMap, Unpaged(q)).items, q)
  /\ \A q \in ProductListQueries :
       WholePaging(q)
       => IsPage(listProducts(productMap, q), listProducts(productMap, Unpaged(q)).items, q)

\* C14: every product in productMap has 0 < discountedPrice <= mrp, whatever
\* addProductToStore and updateProduct calls were made
C14_PriceOrdering ==
  \A p \in MapValues(productMap) : 0 < p.discountedPrice /\ p.discountedPrice <= p.mrp

\* C18: every product in productMap whose commissionType is 'percentage', given or taken
\* by default, has 0 <= commissionValue <= 100
C18_PercentageCommission ==
  \A p \in MapValues(productMap) :
    p.commissionType = "percentage" => 0 <= p.commissionValue /\ p.commissionValue <= 100

\* C19: every product in productMap has 1 <= minOrderQty <= maxOrderQty
C19_OrderQuantities ==
  \A p \in MapValues(productMap) : 1 <= p.minOrderQty /\ p.minOrderQty <= p.maxOrderQty

\* the ids of the products a product query returns
Listed(r) == {r.items[i].id : i \in 1 .. Len(r.items)}

\* removeProduct, where it succeeds, changes only isActive (to false) and updatedAt of
\* the product, which stays in productMap
RemoveOnlyDeactivates ==
  \A id \in ProductStoreIds, pid \in ProductIdInputs :
    LET r == removeProduct(productMap, productIdCounter, id, pid, now)
    IN r.err = NoError
       => /\ r.status = 200
          /\ DOMAIN r.productMap = DOMAIN productMap
          /\ \A other \in DOMAIN productMap \ {pid} : r.productMap[other] = productMap[other]
          /\ r.productMap[pid] = [productMap[pid] EXCEPT !.isActive = FALSE, !.updatedAt = now]
          /\ getProduct(r.productMap, pid).items = <<r.productMap[pid]>>

\* a removed product (the inactive products are the removed ones: a product is made
\* active, and no body of the model sets isActive to false) is, after any step, still
\* in productMap and returned by getProduct, and is in no getNearbyProducts result and
\* no listProducts result requested with isActive=true
StaysRemoved ==
  \A pid \in DOMAIN productMap :
    ~productMap[pid].isActive
    => /\ pid \in DOMAIN productMap'
       /\ getProduct(productMap', pid).err = NoError
       /\ \A q \in NearbyProductQueries : pid \notin Listed(getNearbyProducts(productMap', q))
       /\ \A q \in ProductListQueries :
            (Has(q, "isActive") /\ q.isActive = "true")
            => pid \notin Listed(listProducts(productMap', q))

\* C20: removeProduct is a soft delete: it only sets isActive = false and updatedAt, the
\* product stays in productMap and getProduct returns it; from then on the product is
\* in no getNearbyProducts result and in no listProducts result with isActive=true,
\* whatever operations follow
C20_SoftDelete == [](RemoveOnlyDeactivates) /\ [][StaysRemoved]_vars

\* addProductToStore with a body that validateProduct accepts answers 201 and stores
\* the product under the path's store id, whether or not storeMap has that id, and
\* leaves the other products as they are
AddIgnoresStore ==
  \A id \in ProductStoreIds, body \in ProductBodies :
    LET r == addProductToStore(productMap, productIdCounter, id, body, now)
        pid == generateProductId(productIdCounter)
    IN validateProduct(body) = NoError
       => /\ r.err = NoError
          /\ r.status = 201
          /\ DOMAIN r.productMap = DOMAIN productMap \cup {pid}
          /\ r.productMap[pid].kiranaStoreId = id
          /\ \A other \in DOMAIN productMap \ {pid} : r.productMap[other] = productMap[other]

\* a step that changes storeMap or storeIdCounter leaves productMap as it is
StoreOpsKeepProducts ==
  (storeMap' # storeMap \/ storeIdCounter' # storeIdCounter) => productMap' = productMap

\* C15: addProductToStore succeeds (201) and stores the product for any store id in the
\* path, an id that no createStore returned included, and no store operation removes or
\* changes products
C15_NoReferentialIntegrity == [](AddIgnoresStore) /\ [][StoreOpsKeepProducts]_vars

\* a product is stored under an id that storeMap does not have, and another under the
\* id of a store that has since been moved
C15_Witness ==
  /\ \E p \in MapValues(productMap) :
       p.kiranaStoreId \in MockStoreIds /\ ~MapHas(storeMap, p.kiranaStoreId)
  /\ \E p \in MapValues(productMap) :
       MapHas(storeMap, p.kiranaStoreId) /\ storeMap[p.kiranaStoreId].longitude = 2

(***************************************************************************)
(* Properties of a restart                                                 *)
(***************************************************************************)
\* after a restart userStore, otpStore, storeMap and productMap are empty and verifyOTP
\* accepts no OTP
RestartDiscards ==
  restarts' # restarts
  => /\ userStore' = EmptyMap
     /\ otpStore' = EmptyMap
     /\ storeMap' = EmptyMap
     /\ productMap' = EmptyMap
     /\ \A phone \in PhoneInputs, otp \in OtpInputs :
          verifyOTP(otpStore', phone, otp, now').err # NoError

\* C17 as stated: after a restart the four maps are empty, verifyOTP accepts no OTP, and
\* the protected routes accept no token issued before the restart
C17_AsStated ==
  [][/\ RestartDiscards
     /\ restarts' # restarts
        => \A tk \in MapValues(issued) :
             authenticate(<<"Bearer", tk>>, now', secret').err # NoError]_vars

\* C17: after a restart the four maps are empty and verifyOTP accepts no OTP; a token
\* issued before the restart is accepted by authenticate exactly as before the restart,
\* that is while JWT_SECRET is configured and the token has not expired, and with it
\* POST /logout answers 200 and GET /me 404, the user being gone
C17_RestartDiscards ==
  [][/\ RestartDiscards
     /\ restarts' # restarts
        => \A tk \in MapValues(issued), env \in NodeEnvs :
             LET a == authenticate(<<"Bearer", tk>>, now', secret')
             IN /\ a = authenticate(<<"Bearer", tk>>, now, secret)
                /\ a.err = NoError <=> (secret' /\ now' \div 1000 < tk.exp)
                /\ a.err = NoError
                   => /\ RunProtected(a, logout, env).resp.status = 200
                      /\ RunProtected(a, getCurrentUser(userStore', a.user), env).resp.status
                           = 404]_vars

\* the process was restarted, the maps are empty, and a client holds a token from before
\* the restart that authenticate accepts
C17_Witness ==
  /\ restarts = 1
  /\ userStore = EmptyMap
  /\ productMap = EmptyMap
  /\ \E tk \in MapValues(issued) : authenticate(<<"Bearer", tk>>, now, secret).err = NoError

(***************************************************************************)
(* Properties of requests in flight together                               *)
(***************************************************************************)
\* no two sign-ups for one phone are both past the userStore.has check, and none is
\* for a phone that userStore has: each suspended sign-up goes on to answer 200
OneSignupPerPhone ==
  /\ \A i, j \in 1 .. Len(inflight) :
       i # j => inflight[i].body.phone # inflight[j].body.phone
  /\ \A i \in 1 .. Len(inflight) : ~MapHas(userStore, inflight[i].body.phone)

\* no two stores have one ownerPhone
OneStorePerPhone ==
  \A a, b \in DOMAIN storeMap : storeMap[a].ownerPhone = storeMap[b].ownerPhone => a = b

\* a user record that exists stays, with its id
UserIdStable ==
  \A phone \in DOMAIN userStore :
    MapHas(userStore', phone) /\ userStore'[phone].id = userStore[phone].id

\* C16: of two signup requests for one phone in flight at once at most one succeeds, of
\* two createStore requests with one ownerPhone at most one succeeds, and a user record
\* that exists is never overwritten by a later signup: its id never changes
C16_Serialized == [](OneSignupPerPhone /\ OneStorePerPhone) /\ [][UserIdStable]_vars

(***************************************************************************)
(* Properties of the product's store guard                                 *)
(***************************************************************************)
\* the request whose controller result is r is answered with the error class and status
\* given, in either environment, and leaves productMap and productIdCounter as they are
RejectedWith(r, class, status) ==
  /\ r.err.class = class
  /\ \A env \in NodeEnvs : RunHandler(r, env).resp.status = status
  /\ r.productMap = productMap
  /\ r.counter = productIdCounter

\* what removeProduct, and updateProduct with a body in bodies, do for a product id that
\* productMap does not have (NotFoundError, 404) and for a product of another store than
\* the path's (ForbiddenError, 403); they succeed only on a product of the path's store
StoreGuard(bodies) ==
  \A id \in ProductStoreIds, pid \in ProductIdInputs :
    LET removed == removeProduct(productMap, productIdCounter, id, pid, now)
        Updating(body) == updateProduct(productMap, productIdCounter, id, pid, body, now)
    IN /\ ~MapHas(productMap, pid)
          => /\ RejectedWith(removed, "NotFoundError", 404)
             /\ \A body \in bodies : RejectedWith(Updating(body), "NotFoundError", 404)
       /\ (MapHas(productMap, pid) /\ productMap[pid].kiranaStoreId # id)
          => /\ RejectedWith(removed, "ForbiddenError", 403)
             /\ \A body \in bodies : RejectedWith(Updating(body), "ForbiddenError", 403)
       /\ removed.err = NoError
          => MapHas(productMap, pid) /\ productMap[pid].kiranaStoreId = id
       /\ \A body \in bodies :
            Updating(body).err = NoError
            => MapHas(productMap, pid) /\ productMap[pid].kiranaStoreId = id

\* C21 as stated: updateProduct and removeProduct act on a product only when its
\* kiranaStoreId is the path's store id; for an unknown product id they fail with
\* NotFoundError (404), for a product of another store with ForbiddenError (403), and
\* productMap is left unchanged, whatever the body of the update
C21_AsStated == StoreGuard(ProductUpdates)

\* the bodies of updateProduct that are empty or pass validateProductUpdate
ValidUpdates ==
  {body \in ProductUpdates : DOMAIN body = {} \/ validateProductUpdate(body) = NoError}

\* C21: updateProduct and removeProduct act on a product only when its kiranaStoreId is
\* the path's store id; removeProduct, and updateProduct with a body that is empty or
\* passes validateProductUpdate, fail with NotFoundError (404) for an unknown product id
\* and with ForbiddenError (403) for a product of another store; updateProduct with any
\* other body fails with ValidationError (400) whatever the product; productMap is left
\* unchanged in all three cases
C21_StoreGuard ==
  /\ StoreGuard(ValidUpdates)
  /\ \A id \in ProductStoreIds, pid \in ProductIdInputs, body \in ProductUpdates \ ValidUpdates :
       RejectedWith(updateProduct(productMap, productIdCounter, id, pid, body, now),
                    "ValidationError", 400)

\* one product is stored: a request under the other store id is forbidden, the second
\* product id is unknown, and a body is at hand that validateProductUpdate rejects
C21_Witness ==
  /\ \E pid \in DOMAIN productMap, id \in ProductStoreIds :
       /\ productMap[pid].kiranaStoreId # id
       /\ removeProduct(productMap, productIdCounter, id, pid, now).err.class
            = "ForbiddenError"
  /\ \E pid \in ProductIdInputs, id \in ProductStoreIds, body \in ProductUpdates :
       /\ ~MapHas(productMap, pid)
       /\ updateProduct(productMap, productIdCounter, id, pid, body, now).err.class
            = "ValidationError"
  /\ \E pid \in DOMAIN productMap : ~productMap[pid].isActive

(***************************************************************************)
(* Properties of asyncHandler and asyncHandlerAlt                          *)
(***************************************************************************)
\* the wrapper called next never when fn succeeded, and once, with fn's error, when fn
\* failed, and threw nothing
CaughtByWrapper ==
  /\ result.thrown = NoError
  /\ result.nextCalls = IF call.kind = "resolves" THEN <<>> ELSE <<call.err>>

\* C22 as stated: for every fn, whether it completes normally, returns a rejected promise
\* or throws before returning a promise, both wrappers never call next when fn succeeds,
\* call next(err) exactly once with fn's error when it fails, let no error escape, and
\* so do the same
C22_AsStated ==
  /\ result.done => CaughtByWrapper
  /\ asyncHandlerWrap(call) = asyncHandlerAlt(call)

\* C22: for every fn that completes normally or returns a rejected promise, as every
\* async function does, both wrappers do the same: next is never called when fn
\* succeeds, is called exactly once with fn's error when it fails, and no error escapes;
\* this is what asyncHandler is modelled to do for the routes. For an fn that throws
\* before returning a promise asyncHandlerAlt does that too, while asyncHandler does not
\* call next and the error escapes the wrapper to its caller
C22_Wrappers ==
  /\ (result.done /\ (call.kind # "throws" \/ result.wrapper = "asyncHandlerAlt"))
     => CaughtByWrapper
  /\ (result.done /\ call.kind = "throws" /\ result.wrapper = "asyncHandler")
     => result.nextCalls = <<>> /\ result.thrown = call.err
  /\ call.kind # "throws"
     => /\ asyncHandlerWrap(call) = asyncHandlerAlt(call)
        /\ asyncHandlerWrap(call).nextCalls = asyncHandler(call.err)

\* asyncHandlerAlt has passed on to next the error that fn threw before returning
C22_Witness ==
  /\ result.done
  /\ result.wrapper = "asyncHandlerAlt"
  /\ call.kind = "throws"
  /\ result.nextCalls = <<call.err>>

====
